---- MODULE Spec2Model ----
(***************************************************************************)
(* Model of c2rust-analyze/src/rewrite/expr/mir_op.rs: the MIR walker      *)
(* (ExprRewriteVisitor) and the cast synthesizer (CastBuilder).            *)
(*                                                                         *)
(* Three specifications share the module:                                  *)
(*   SpecCast  one run of CastBuilder::try_build_cast_desc_desc, one phase *)
(*             of the function per step;                                   *)
(*   Spec      one run of gen_mir_rewrites, one visit_statement or         *)
(*             visit_terminator call per step;                             *)
(*   SpecZero  one call of ZeroizeType::from_ty.                           *)
(* The phases of the cast are operators on a cast state, so that the       *)
(* walker applies the very same definitions, composed, inside its visits.  *)
(***************************************************************************)
EXTENDS Integers, Sequences, FiniteSets, TLC

VARIABLES
    \* ---- CastBuilder::try_build_cast_desc_desc (SpecCast) ----
    orig_from,      \* the `from` argument as passed by the caller
    to,             \* the `to` argument
    cast,           \* running state of the call: from, emitted, in_option_map, err
    pc,             \* position inside try_build_cast_desc_desc
    trail,          \* running shapes seen at the phase boundaries, oldest first
    \* ---- ExprRewriteVisitor / gen_mir_rewrites (Spec) ----
    rewrites,       \* HashMap<Location, Vec<MirRewrite>>
    loc,            \* self.loc
    sub_loc,        \* self.sub_loc
    errors,         \* self.errors : DontRewriteFnReason
    panicked,       \* the walk was aborted by a panic (unwrap() / todo!())
    returned,       \* gen_mir_rewrites has returned (out, errors)
    cur,            \* the statement or terminator handed to the last visit
    attempt,        \* the last cast attempt of the last visit
    calls,          \* visit_rvalue, visit_place and build_cast_desc_desc calls of
                    \* the last visit, in the order they were made
    iter,           \* the loops of gen_mir_rewrites: next Location, visits made
    \* ---- ZeroizeType::from_ty (SpecZero) ----
    ty_in,          \* ty, the argument of the call
    zero_plan       \* the Option<ZeroizeType> returned, once it has returned

castVars == <<orig_from, to, cast, pc, trail>>
walkVars == <<rewrites, loc, sub_loc, errors, panicked, returned, cur, attempt, calls, iter>>
zeroVars == <<ty_in, zero_plan>>
vars == <<orig_from, to, cast, pc, trail,
          rewrites, loc, sub_loc, errors, panicked, returned, cur, attempt, calls, iter,
          ty_in, zero_plan>>

(***************************************************************************)
(* Types (rustc Ty) as terms.  A reference carries a region; erase_regions *)
(* replaces every region by the erased region 0.                           *)
(***************************************************************************)
ReErased == "'erased"

TyInt == <<"Int">>
TyUint == <<"Uint">>
TyBool == <<"Bool">>
TyFloat == <<"Float">>
TyArray(elem) == <<"Array", elem>>
TyRef(region, pointee) == <<"Ref", region, pointee>>
TyRawPtr(pointee) == <<"RawPtr", pointee>>
TyStruct(name, fields) == <<"Struct", name, fields>>
TyEnum(name) == <<"Enum", name>>
TyUnion(name) == <<"Union", name>>

RECURSIVE erase_regions(_)
erase_regions(ty) ==
    CASE ty[1] = "Ref"    -> TyRef(ReErased, erase_regions(ty[3]))
      [] ty[1] = "RawPtr" -> TyRawPtr(erase_regions(ty[2]))
      [] ty[1] = "Array"  -> TyArray(erase_regions(ty[2]))
      [] ty[1] = "Struct" ->
            TyStruct(ty[2], [i \in DOMAIN ty[3] |->
                                <<ty[3][i][1], erase_regions(ty[3][i][2])>>])
      [] OTHER -> ty

(***************************************************************************)
(* type_desc::{Ownership, Quantity, TypeDesc}                              *)
(***************************************************************************)
Ownerships == {"Raw", "RawMut", "Imm", "Cell", "Mut", "Rc", "Box"}
Quantities == {"Single", "Slice", "OffsetPtr", "Array"}

\* Ownership::is_copy: Box, Mut and Rc cannot be freely duplicated.
is_copy(own) == own \in {"Raw", "RawMut", "Imm", "Cell"}

TypeDesc(own, qty, dyn_owned, option, pointee_ty) ==
    [own |-> own, qty |-> qty, dyn_owned |-> dyn_owned, option |-> option,
     pointee_ty |-> pointee_ty]

(***************************************************************************)
(* ZeroizeType and RewriteKind.  Every rewrite kind is a record of the     *)
(* same shape: the variant, its (up to two) boolean fields, and its        *)
(* ZeroizeType field.  elem_size, a layout query answered by the compiler, *)
(* and the printed type of CastRawMutToCellPtr are not carried.            *)
(***************************************************************************)
ZInt == <<"Int">>
ZBool == <<"Bool">>
ZArray(z) == <<"Array", z>>
ZStruct(name, fields) == <<"Struct", name, fields>>
NoZero == <<"None">>

RK(kind, b1, b2, z) == [kind |-> kind, b1 |-> b1, b2 |-> b2, zero_ty |-> z]

OffsetSlice(mutbl) == RK("OffsetSlice", mutbl, FALSE, NoZero)
OptionMapOffsetSlice(mutbl) == RK("OptionMapOffsetSlice", mutbl, FALSE, NoZero)
SliceFirst(mutbl) == RK("SliceFirst", mutbl, FALSE, NoZero)
Reborrow(mutbl) == RK("Reborrow", mutbl, FALSE, NoZero)
RemoveAsPtr == RK("RemoveAsPtr", FALSE, FALSE, NoZero)
RemoveCast == RK("RemoveCast", FALSE, FALSE, NoZero)
RawToRef(mutbl) == RK("RawToRef", mutbl, FALSE, NoZero)
IsNullToIsNone == RK("IsNullToIsNone", FALSE, FALSE, NoZero)
IsNullToConstFalse == RK("IsNullToConstFalse", FALSE, FALSE, NoZero)
PtrNullToNone == RK("PtrNullToNone", FALSE, FALSE, NoZero)
ZeroAsPtrToNone == RK("ZeroAsPtrToNone", FALSE, FALSE, NoZero)
MemcpySafe(dest_single, src_single) == RK("MemcpySafe", dest_single, src_single, NoZero)
MemsetZeroize(zero_ty, dest_single) == RK("MemsetZeroize", dest_single, FALSE, zero_ty)
MallocSafe(zero_ty, single) == RK("MallocSafe", single, FALSE, zero_ty)
FreeSafe(single) == RK("FreeSafe", single, FALSE, NoZero)
ReallocSafe(zero_ty, src_single, dest_single) == RK("ReallocSafe", src_single, dest_single, zero_ty)
CallocSafe(zero_ty, single) == RK("CallocSafe", single, FALSE, zero_ty)
OptionUnwrap == RK("OptionUnwrap", FALSE, FALSE, NoZero)
OptionSome == RK("OptionSome", FALSE, FALSE, NoZero)
OptionMapBegin == RK("OptionMapBegin", FALSE, FALSE, NoZero)
OptionMapEnd == RK("OptionMapEnd", FALSE, FALSE, NoZero)
OptionDowngrade(mutbl, deref) == RK("OptionDowngrade", mutbl, deref, NoZero)
DynOwnedUnwrap == RK("DynOwnedUnwrap", FALSE, FALSE, NoZero)
DynOwnedTake == RK("DynOwnedTake", FALSE, FALSE, NoZero)
DynOwnedWrap == RK("DynOwnedWrap", FALSE, FALSE, NoZero)
DynOwnedDowngrade(mutbl) == RK("DynOwnedDowngrade", mutbl, FALSE, NoZero)
CastRefToRaw(mutbl) == RK("CastRefToRaw", mutbl, FALSE, NoZero)
CastRawToRaw(to_mutbl) == RK("CastRawToRaw", to_mutbl, FALSE, NoZero)
UnsafeCastRawToRef(mutbl) == RK("UnsafeCastRawToRef", mutbl, FALSE, NoZero)
CastRawMutToCellPtr == RK("CastRawMutToCellPtr", FALSE, FALSE, NoZero)
CellNew == RK("CellNew", FALSE, FALSE, NoZero)
CellGet == RK("CellGet", FALSE, FALSE, NoZero)
CellSet == RK("CellSet", FALSE, FALSE, NoZero)
CellFromMut == RK("CellFromMut", FALSE, FALSE, NoZero)
AsPtr == RK("AsPtr", FALSE, FALSE, NoZero)

(***************************************************************************)
(* CastBuilder.  A cast state c is the mutable part of one call of         *)
(* try_build_cast_desc_desc: the running shape `from`, the rewrites handed *)
(* to the emit callback so far, in_option_map, and whether Err was         *)
(* returned.  Every phase maps a cast state to a cast state.               *)
(***************************************************************************)
CastState(from, emitted, in_option_map, err) ==
    [from |-> from, emitted |-> emitted, in_option_map |-> in_option_map, err |-> err]

\* (self.emit)(rk)
CastEmit(c, rk) == [c EXCEPT !.emitted = Append(@, rk)]

\* return Err(..)
CastErr(c) == [c EXCEPT !.err = TRUE]

\* One call of cast_ownership_one_step: the rewrites it emits and its result,
\* "Err", "None", or the new ownership (Some).
OneStep(emits, res) == [emits |-> emits, res |-> res]

cast_ownership_one_step(from_own, to_own, early) ==
    CASE from_own = "Box" ->
            IF to_own \in {"Raw", "Imm"} THEN OneStep(<<Reborrow(FALSE)>>, "Imm")
            ELSE IF to_own \in {"RawMut", "Mut", "Cell"} THEN OneStep(<<Reborrow(TRUE)>>, "Mut")
            ELSE OneStep(<<>>, "None")
      [] from_own = "Rc" ->
            IF to_own \in {"Imm", "Raw", "RawMut"} THEN OneStep(<<>>, "Err")
            ELSE OneStep(<<>>, "None")
      [] from_own = "Mut" ->
            IF to_own \in {"Imm", "Raw"} THEN OneStep(<<Reborrow(FALSE)>>, "Imm")
            ELSE IF to_own = "Cell" THEN OneStep(<<CellFromMut>>, "Cell")
            ELSE IF to_own = "RawMut" /\ ~early THEN OneStep(<<CastRefToRaw(TRUE)>>, "RawMut")
            ELSE OneStep(<<>>, "None")
      [] from_own = "Cell" ->
            IF to_own \in {"RawMut", "Raw"} /\ ~early THEN OneStep(<<AsPtr>>, "RawMut")
            ELSE OneStep(<<>>, "None")
      [] from_own = "Imm" ->
            IF to_own \in {"Raw", "RawMut"} /\ ~early THEN OneStep(<<CastRefToRaw(FALSE)>>, "Raw")
            ELSE OneStep(<<>>, "None")
      [] from_own = "RawMut" ->
            IF to_own \in {"Raw", "Imm"} /\ ~early THEN OneStep(<<CastRawToRaw(FALSE)>>, "Raw")
            ELSE IF to_own = "Mut" /\ ~early THEN OneStep(<<UnsafeCastRawToRef(TRUE)>>, "Mut")
            ELSE IF to_own = "Cell" /\ ~early
                 THEN OneStep(<<CastRawMutToCellPtr, UnsafeCastRawToRef(FALSE)>>, "Cell")
            ELSE OneStep(<<>>, "None")
      [] from_own = "Raw" ->
            IF to_own \in {"RawMut", "Mut"} /\ ~early THEN OneStep(<<CastRawToRaw(TRUE)>>, "RawMut")
            ELSE IF to_own = "Imm" /\ ~early THEN OneStep(<<UnsafeCastRawToRef(FALSE)>>, "Imm")
            ELSE OneStep(<<>>, "None")

\* The loop of cast_ownership still has an iteration to run.
OwnLoopRuns(c, t) == ~c.err /\ c.from.own # t.own

\* OwnLoopMatch that loses the rewrites the step emitted.
OwnLoopMatchDropEmits(c, s) ==
    CASE s.res = "Err"  -> [next |-> CastErr(c), stop |-> TRUE]
      [] s.res = "None" -> [next |-> c, stop |-> TRUE]
      [] OTHER -> [next |-> [c EXCEPT !.from.own = s.res], stop |-> FALSE]

\* The match on the result s of cast_ownership_one_step: `?` returns Err,
\* None breaks (`stop`), Some(new_own) is stored in from.own.
OwnLoopMatch(c, s) ==
    CASE s.res = "Err"  -> [next |-> CastErr([c EXCEPT !.emitted = @ \o s.emits]), stop |-> TRUE]
      [] s.res = "None" -> [next |-> [c EXCEPT !.emitted = @ \o s.emits], stop |-> TRUE]
      [] OTHER -> [next |-> [c EXCEPT !.emitted = @ \o s.emits, !.from.own = s.res],
                   stop |-> FALSE]

\* An iteration that takes every call for a late one.
OwnLoopIterLate(c, t, early) ==
    OwnLoopMatch(c, cast_ownership_one_step(c.from.own, t.own, FALSE))

\* An iteration that makes a Box of a RawMut pointer.
OwnLoopIterFabricates(c, t, early) ==
    IF c.from.own = "RawMut" /\ t.own = "Box"
    THEN [next |-> [c EXCEPT !.from.own = "Box"], stop |-> FALSE]
    ELSE OwnLoopMatch(c, cast_ownership_one_step(c.from.own, t.own, early))

\* An iteration that reaches Cell from Raw by way of RawMut and Mut.
OwnLoopIterDetour(c, t, early) ==
    IF c.from.own = "Raw" /\ t.own = "Cell" /\ ~early
    THEN [next |-> [CastEmit(c, CastRawToRaw(TRUE)) EXCEPT !.from.own = "RawMut"],
          stop |-> FALSE]
    ELSE IF c.from.own = "RawMut" /\ t.own = "Cell" /\ ~early
    THEN [next |-> [CastEmit(c, UnsafeCastRawToRef(TRUE)) EXCEPT !.from.own = "Mut"],
          stop |-> FALSE]
    ELSE OwnLoopMatch(c, cast_ownership_one_step(c.from.own, t.own, early))

\* One iteration of the loop of cast_ownership.
OwnLoopIter(c, t, early) ==
    OwnLoopMatch(c, cast_ownership_one_step(c.from.own, t.own, early))

\* cast_ownership: the loop run to its end.
RECURSIVE cast_ownership(_, _, _)
OwnLoopAfter(i, t, early) == IF i.stop THEN i.next ELSE cast_ownership(i.next, t, early)

cast_ownership(c, t, early) ==
    IF ~OwnLoopRuns(c, t) THEN c ELSE OwnLoopAfter(OwnLoopIter(c, t, early), t, early)

\* CastGate without the early Ok for from == to.
CastGateNoIdentity(f, t) ==
    IF erase_regions(f.pointee_ty) # erase_regions(t.pointee_ty)
    THEN [c |-> CastState(f, <<>>, FALSE, TRUE), done |-> TRUE]
    ELSE [c |-> CastState([f EXCEPT !.pointee_ty = t.pointee_ty], <<>>, FALSE, FALSE),
          done |-> FALSE]

\* CastGate without the comparison of the erased pointee types.
CastGateNoPointeeCheck(f, t) ==
    [c |-> CastState([f EXCEPT !.pointee_ty = t.pointee_ty], <<>>, FALSE, FALSE),
     done |-> ([f EXCEPT !.pointee_ty = t.pointee_ty] = t)]

\* Lines 1272-1286: the pointee gate, the overwrite of from.pointee_ty, and
\* the early Ok for from == to.  `done` is an early return (Err or Ok).
CastGate(f, t) ==
    IF erase_regions(f.pointee_ty) # erase_regions(t.pointee_ty)
    THEN [c |-> CastState(f, <<>>, FALSE, TRUE), done |-> TRUE]
    ELSE LET f2 == [f EXCEPT !.pointee_ty = t.pointee_ty]
         IN  [c |-> CastState(f2, <<>>, FALSE, FALSE), done |-> (f2 = t)]

\* CastOptionDowngrade that borrows mutably whatever the target is.
CastOptionDowngradeMut(c, t) ==
    IF c.from.option /\ c.from.own # t.own /\ ~is_copy(c.from.own)
    THEN [CastEmit(c, OptionDowngrade(TRUE, TRUE)) EXCEPT !.from.own = "Mut"]
    ELSE c

\* Lines 1288-1325: downgrade ownership before unwrapping the Option.
CastOptionDowngrade(c, t) ==
    IF c.from.option /\ c.from.own # t.own /\ ~is_copy(c.from.own)
    THEN IF t.own \in {"Raw", "Imm"}
         THEN [CastEmit(c, OptionDowngrade(FALSE, TRUE)) EXCEPT !.from.own = "Imm"]
         ELSE IF t.own \in {"RawMut", "Cell", "Mut"}
         THEN [CastEmit(c, OptionDowngrade(TRUE, TRUE)) EXCEPT !.from.own = "Mut"]
         ELSE c
    ELSE c

\* CastOptionOpen that unwraps a nullable source whatever the target is.
CastOptionOpenUnwrap(c, t) ==
    IF c.from.option THEN [CastEmit(c, OptionUnwrap) EXCEPT !.from.option = FALSE] ELSE c

\* Lines 1327-1350: unwrap, or begin an Option::map.
CastOptionOpen(c, t) ==
    IF c.from.option /\ ~t.option
    THEN [CastEmit(c, OptionUnwrap) EXCEPT !.from.option = FALSE]
    ELSE IF c.from.option /\ t.option
    THEN [CastEmit(c, OptionMapBegin) EXCEPT !.from.option = FALSE, !.in_option_map = TRUE]
    ELSE c

\* CastDynOwnedOpen that unwraps to the owned value whatever the target is.
CastDynOwnedOpenUnwrap(c, t) ==
    IF c.from.dyn_owned
    THEN [CastEmit(c, DynOwnedUnwrap) EXCEPT !.from.dyn_owned = FALSE]
    ELSE c

\* Lines 1352-1365: leave DynOwned on the source side.
CastDynOwnedOpen(c, t) ==
    IF c.from.dyn_owned
    THEN LET rk == IF t.own \in {"Raw", "Imm"} THEN DynOwnedDowngrade(FALSE)
                   ELSE IF t.own \in {"RawMut", "Cell", "Mut"} THEN DynOwnedDowngrade(TRUE)
                   ELSE DynOwnedUnwrap
         IN  [CastEmit(c, rk) EXCEPT !.from.dyn_owned = FALSE]
    ELSE c

\* The loop `while from.qty != to.qty` still has an iteration to run.
QtyLoopRuns(c, t) == ~c.err /\ c.from.qty # t.qty

\* An iteration with no conversion between Slice and OffsetPtr.
QtyLoopIterNoInterchange(c, t) ==
    IF c.from.qty = "Array" THEN [next |-> CastErr(c), stop |-> TRUE]
    ELSE IF t.qty = "Single" /\ c.from.own \in {"Imm", "Cell", "Mut"}
    THEN [next |-> [CastEmit(c, SliceFirst(c.from.own = "Mut")) EXCEPT !.from.qty = "Single"],
          stop |-> FALSE]
    ELSE [next |-> c, stop |-> TRUE]

\* An iteration that takes the first element under any ownership.
QtyLoopIterAnyOwn(c, t) ==
    IF c.from.qty = "Array" THEN [next |-> CastErr(c), stop |-> TRUE]
    ELSE IF t.qty = "Single"
    THEN [next |-> [CastEmit(c, SliceFirst(c.from.own = "Mut")) EXCEPT !.from.qty = "Single"],
          stop |-> FALSE]
    ELSE [next |-> [c EXCEPT !.from.qty = t.qty], stop |-> FALSE]

\* An iteration that lets Single, Slice and OffsetPtr pass for one another and
\* for Array.
QtyLoopIterGrows(c, t) ==
    IF c.from.qty = "Array" THEN [next |-> CastErr(c), stop |-> TRUE]
    ELSE IF t.qty = "Single" /\ c.from.own \in {"Imm", "Cell", "Mut"}
    THEN [next |-> [CastEmit(c, SliceFirst(c.from.own = "Mut")) EXCEPT !.from.qty = "Single"],
          stop |-> FALSE]
    ELSE IF t.qty = "Single" THEN [next |-> c, stop |-> TRUE]
    ELSE [next |-> [c EXCEPT !.from.qty = t.qty], stop |-> FALSE]

\* Lines 1372-1416: one iteration of the Quantity loop.
QtyLoopIter(c, t) ==
    LET fq == c.from.qty
        tq == t.qty
        own == c.from.own
    IN  IF fq = "Array" THEN [next |-> CastErr(c), stop |-> TRUE]
        ELSE IF (fq = "Slice" /\ tq = "OffsetPtr") \/ (fq = "OffsetPtr" /\ tq = "Slice")
        THEN [next |-> [c EXCEPT !.from.qty = tq], stop |-> FALSE]
        ELSE IF tq = "Single"
        THEN IF own \in {"Imm", "Cell"}
             THEN [next |-> [CastEmit(c, SliceFirst(FALSE)) EXCEPT !.from.qty = "Single"],
                   stop |-> FALSE]
             ELSE IF own = "Mut"
             THEN [next |-> [CastEmit(c, SliceFirst(TRUE)) EXCEPT !.from.qty = "Single"],
                   stop |-> FALSE]
             ELSE [next |-> c, stop |-> TRUE]
        ELSE [next |-> c, stop |-> TRUE]

\* The Quantity loop run to its end.
RECURSIVE CastQuantity(_, _)
QtyLoopAfter(i, t) == IF i.stop THEN i.next ELSE CastQuantity(i.next, t)

CastQuantity(c, t) ==
    IF ~QtyLoopRuns(c, t) THEN c ELSE QtyLoopAfter(QtyLoopIter(c, t), t)

\* CastDynOwnedClose that wraps whatever the target is.
CastDynOwnedCloseAlways(c, t) == [CastEmit(c, DynOwnedWrap) EXCEPT !.from.dyn_owned = TRUE]

\* Lines 1421-1424: enter DynOwned on the target side.
CastDynOwnedClose(c, t) ==
    IF t.dyn_owned THEN [CastEmit(c, DynOwnedWrap) EXCEPT !.from.dyn_owned = TRUE] ELSE c

\* CastOptionClose that forgets in_option_map and wraps in Some.
CastOptionCloseSome(c, t) ==
    IF ~c.from.option /\ t.option
    THEN [CastEmit(c, OptionSome) EXCEPT !.from.option = TRUE]
    ELSE c

\* Lines 1426-1435: end the Option::map, or wrap in Some.
CastOptionClose(c, t) ==
    IF c.in_option_map
    THEN [CastEmit(c, OptionMapEnd) EXCEPT !.from.option = TRUE]
    ELSE IF ~c.from.option /\ t.option
    THEN [CastEmit(c, OptionSome) EXCEPT !.from.option = TRUE]
    ELSE c

\* CastFinal without the check.
CastFinalNoCheck(c, t) == c

\* Lines 1437-1444: the final check.
CastFinal(c, t) == IF c.from # t THEN CastErr(c) ELSE c

\* A phase is skipped once Err was returned.
Then(c, t, Phase(_, _)) == IF c.err THEN c ELSE Phase(c, t)

CastOwnEarly(c, t) == cast_ownership(c, t, TRUE)
CastOwnLate(c, t) == cast_ownership(c, t, FALSE)

\* The phases after the gate, in the order of the code.
CastPhases(c, t) ==
    Then(Then(Then(Then(Then(Then(
        CastDynOwnedOpen(CastOptionOpen(CastOptionDowngrade(c, t), t), t),
        t, CastOwnEarly), t, CastQuantity), t, CastOwnLate),
        t, CastDynOwnedClose), t, CastOptionClose), t, CastFinal)

\* The early return of the gate, or the phases.
CastAfterGate(g, t) == IF g.done THEN g.c ELSE CastPhases(g.c, t)

\* try_build_cast_desc_desc, whole: the final cast state; Ok iff ~err.
try_build_cast_desc_desc(f, t) == CastAfterGate(CastGate(f, t), t)

(***************************************************************************)
(* Labelled types (LTy) with what the read-only tables say of their label. *)
(*   kind      "RawPtr", "Ref", or "Other" (not a pointer type)            *)
(*   label     the type has a PointerId (label is not NONE)                *)
(*   fixed, cell                 FlagSet::FIXED, FlagSet::CELL             *)
(*   non_null, offset, used      PermissionSet::NON_NULL,                  *)
(*                               OFFSET_ADD | OFFSET_SUB, USED             *)
(*   own, qty, dyn_owned, option the axes type_desc::perms_to_desc returns *)
(*                               for the label (for a FIXED label, the     *)
(*                               axes of the type as written)              *)
(*   pointee   lty.args[0], the pointee type as declared                   *)
(*   sole      pointee_types[label].get_sole_lty(), or NoTy                *)
(***************************************************************************)
NoTy == <<"NoTy">>

LTy(kind, cls, pointee, sole) ==
    [kind |-> kind, label |-> TRUE, fixed |-> cls.fixed, cell |-> cls.cell,
     non_null |-> cls.non_null, offset |-> cls.offset, used |-> cls.used,
     own |-> cls.own, qty |-> cls.qty, dyn_owned |-> cls.dyn_owned, option |-> cls.option,
     pointee |-> pointee, sole |-> sole]

\* The classification of one pointer: its flags, permissions and axes.
Cls(own, qty, dyn_owned, option, fixed, offset, used, cell) ==
    [own |-> own, qty |-> qty, dyn_owned |-> dyn_owned, option |-> option,
     fixed |-> fixed, non_null |-> ~option, offset |-> offset, used |-> used, cell |-> cell]

\* A type that is no pointer: it has no label.
OtherLTy ==
    [kind |-> "Other", label |-> FALSE, fixed |-> FALSE, cell |-> FALSE,
     non_null |-> FALSE, offset |-> FALSE, used |-> FALSE,
     own |-> "Raw", qty |-> "Single", dyn_owned |-> FALSE, option |-> FALSE,
     pointee |-> NoTy, sole |-> NoTy]

\* expect_ty = None
NoLTy == [OtherLTy EXCEPT !.kind = "None"]

IsPtr(lty) == lty.kind \in {"RawPtr", "Ref"}

\* ExprRewriteVisitor::pointee_lty; NoTy stands for None.
pointee_lty(lty) ==
    IF ~IsPtr(lty) THEN NoTy
    ELSE IF lty.label /\ lty.sole # NoTy THEN lty.sole
    ELSE lty.pointee

\* ExprRewriteVisitor::is_nullable, on the label of lty.
is_nullable(lty) == lty.label /\ ~lty.non_null /\ ~lty.fixed

\* ExprRewriteVisitor::is_dyn_owned
is_dyn_owned(lty) ==
    IF ~IsPtr(lty) THEN FALSE
    ELSE IF ~lty.label THEN FALSE
    ELSE IF lty.fixed THEN FALSE
    ELSE lty.dyn_owned

\* CastBuilder::lty_to_desc: type_desc::perms_to_desc on the type of lty.
lty_to_desc(lty) == TypeDesc(lty.own, lty.qty, lty.dyn_owned, lty.option, lty.pointee)

\* type_desc::perms_to_desc_with_pointee
perms_to_desc_with_pointee(pointee_ty, lty) ==
    TypeDesc(lty.own, lty.qty, lty.dyn_owned, lty.option, pointee_ty)

(***************************************************************************)
(* ZeroizeType::from_ty; NoZero stands for None.                           *)
(***************************************************************************)
RECURSIVE ZeroFields(_, _)
RECURSIVE from_ty(_)
from_ty(ty) ==
    CASE ty[1] \in {"Int", "Uint"} -> ZInt
      [] ty[1] = "Bool" -> ZBool
      [] ty[1] = "Struct" ->
            LET fields == ZeroFields(ty[3], <<>>)
            IN  IF fields = NoZero THEN NoZero ELSE ZStruct(ty[2], fields)
      [] ty[1] = "Array" ->
            LET elem_zero == from_ty(ty[2])
            IN  IF elem_zero = NoZero THEN NoZero ELSE ZArray(elem_zero)
      [] OTHER -> NoZero

\* A loop over variant.fields that skips a field with no plan and goes on.
ZeroFieldsSkipping(fields, acc) ==
    IF fields = <<>> THEN acc
    ELSE IF from_ty(Head(fields)[2]) = NoZero THEN ZeroFields(Tail(fields), acc)
    ELSE ZeroFields(Tail(fields), Append(acc, <<Head(fields)[1], from_ty(Head(fields)[2])>>))

\* The loop over variant.fields: `?` leaves at the first field with no plan.
ZeroFields(fields, acc) ==
    IF fields = <<>> THEN acc
    ELSE LET zero == from_ty(Head(fields)[2])
         IN  IF zero = NoZero THEN NoZero
             ELSE ZeroFields(Tail(fields), Append(acc, <<Head(fields)[1], zero>>))

(***************************************************************************)
(* ExprRewriteVisitor.  A visitor state v holds the fields the visits      *)
(* change: rewrites, loc, sub_loc, errors; panicked, set when the visit    *)
(* was left by a panic (nothing runs after it, no enter() pops); and       *)
(* attempt, the last call of build_cast_desc_desc: whether it failed, the  *)
(* length of the Location's list when it began, and how many rewrites it   *)
(* emitted; and calls, the calls of visit_rvalue, visit_place and          *)
(* build_cast_desc_desc made since the visit began.                        *)
(***************************************************************************)
SubDest == <<"Dest">>
SubRvalue == <<"Rvalue">>
SubCallArg(i) == <<"CallArg", i>>
SubRvalueOperand(i) == <<"RvalueOperand", i>>
SubRvaluePlace(i) == <<"RvaluePlace", i>>
SubOperandPlace == <<"OperandPlace">>
SubPlaceDerefPointer == <<"PlaceDerefPointer">>
SubPlaceFieldBase == <<"PlaceFieldBase">>
SubPlaceIndexArray == <<"PlaceIndexArray">>

MirRewrite(kind, path) == [kind |-> kind, sub_loc |-> path]

COMPLEX_CELL == "COMPLEX_CELL"

\* A panic that is swallowed: the visit goes on.
PanicGoesOn(v) == v

\* panic!: unwrap() on Err, todo!(), assert!, unreachable!
Panic(v) == [v EXCEPT !.panicked = TRUE]

\* ExprRewriteVisitor::err
Err(v, reason) == IF v.panicked THEN v ELSE [v EXCEPT !.errors = @ \cup {reason}]

\* A call is made: it is recorded with the path it is made under.
Called(v, call) ==
    IF v.panicked THEN v ELSE [v EXCEPT !.calls = Append(@, call @@ [sub_loc |-> v.sub_loc])]

RvalueCall(rv) == [fn |-> "visit_rvalue", rvalue |-> rv]
PlaceCall(pl, access) == [fn |-> "visit_place", place |-> pl, access |-> access]
CastCall(from, t) == [fn |-> "build_cast_desc_desc", from |-> from, to |-> t]

\* The Vec of a Location in the HashMap; empty when it has no entry.
At(map, l) == IF l \in DOMAIN map THEN map[l] ELSE <<>>

\* An emit that puts the rewrite at the front of the Location's list.
emitFirst(v, rw) ==
    IF v.panicked THEN v
    ELSE [v EXCEPT !.rewrites =
            IF v.loc \in DOMAIN @
            THEN [@ EXCEPT ![v.loc] = <<MirRewrite(rw, v.sub_loc)>> \o @]
            ELSE (v.loc :> <<MirRewrite(rw, v.sub_loc)>>) @@ @]

\* ExprRewriteVisitor::emit
emit(v, rw) ==
    IF v.panicked THEN v
    ELSE [v EXCEPT !.rewrites =
            IF v.loc \in DOMAIN @
            THEN [@ EXCEPT ![v.loc] = Append(@, MirRewrite(rw, v.sub_loc))]
            ELSE (v.loc :> <<MirRewrite(rw, v.sub_loc)>>) @@ @]

\* self.sub_loc.push(sub)
Push(v, sub) == IF v.panicked THEN v ELSE [v EXCEPT !.sub_loc = Append(@, sub)]

\* A pop that is forgotten.
PopNothing(v) == v

\* self.sub_loc.pop()
Pop(v) ==
    IF v.panicked THEN v
    ELSE [v EXCEPT !.sub_loc = IF @ = <<>> THEN @ ELSE SubSeq(@, 1, Len(@) - 1)]

\* ExprRewriteVisitor::enter
enter(v, sub, F(_)) == Pop(F(Push(v, sub)))

\* The emit callback of a CastBuilder, called once per rewrite, in order.
RECURSIVE EmitAll(_, _)
EmitAll(v, kinds) ==
    IF kinds = <<>> THEN v ELSE EmitAll(emit(v, Head(kinds)), Tail(kinds))

\* CastBuilder::build_cast_desc_desc under the visitor's emit callback:
\* try_build_cast_desc_desc(from, to).unwrap()
\* The visitor after a call of try_build_cast_desc_desc that ended in cast
\* state c: the callback has run once per emitted rewrite.
AfterCast(v, c) ==
    [EmitAll(v, c.emitted) EXCEPT
        !.attempt = [made |-> TRUE, failed |-> c.err,
                     mark |-> Len(At(v.rewrites, v.loc)), n |-> Len(c.emitted)]]

\* .unwrap(): panics on Err
Unwrap(v, c) == IF c.err THEN Panic(AfterCast(v, c)) ELSE AfterCast(v, c)

build_cast_desc_desc(v, from, t) ==
    IF v.panicked THEN v
    ELSE Unwrap(Called(v, CastCall(from, t)), try_build_cast_desc_desc(from, t))

\* CastBuilder::build_cast_lty_desc
build_cast_lty_desc(v, from_lty, t) ==
    build_cast_desc_desc(v, perms_to_desc_with_pointee(t.pointee_ty, from_lty), t)

\* CastBuilder::build_cast_desc_lty
build_cast_desc_lty(v, from, to_lty) ==
    build_cast_desc_desc(v, from, perms_to_desc_with_pointee(from.pointee_ty, to_lty))

\* CastBuilder::build_cast_lty_lty
build_cast_lty_lty(v, from_lty, to_lty) ==
    IF ~from_lty.label /\ ~to_lty.label THEN v
    ELSE IF from_lty.kind # "RawPtr" /\ to_lty.kind # "RawPtr" THEN v
    ELSE IF ~from_lty.fixed /\ ~to_lty.fixed
         THEN build_cast_desc_desc(v, lty_to_desc(from_lty), lty_to_desc(to_lty))
    ELSE IF ~from_lty.fixed /\ to_lty.fixed
         THEN build_cast_desc_lty(v, lty_to_desc(from_lty), to_lty)
    ELSE IF from_lty.fixed /\ ~to_lty.fixed
         THEN build_cast_lty_desc(v, from_lty, lty_to_desc(to_lty))
    ELSE v

\* CastBuilder::build_cast_lty_adjust
build_cast_lty_adjust(v, from_lty, to_adjust(_)) ==
    IF ~from_lty.label THEN v
    ELSE IF from_lty.kind # "RawPtr" THEN v
    ELSE IF from_lty.fixed THEN v
    ELSE build_cast_desc_desc(v, lty_to_desc(from_lty), to_adjust(lty_to_desc(from_lty)))

\* CastBuilder::build_cast_adjust_lty
build_cast_adjust_lty(v, from_adjust(_), to_lty) ==
    IF ~to_lty.label THEN v
    ELSE IF to_lty.kind # "RawPtr" THEN v
    ELSE IF to_lty.fixed THEN v
    ELSE build_cast_desc_desc(v, from_adjust(lty_to_desc(to_lty)), lty_to_desc(to_lty))

\* ExprRewriteVisitor::emit_cast_*: a CastBuilder over self.emit.
emit_cast_desc_desc(v, from, t) == build_cast_desc_desc(v, from, t)
emit_cast_lty_desc(v, from_lty, t) == build_cast_lty_desc(v, from_lty, t)
emit_cast_lty_lty(v, from_lty, to_lty) == build_cast_lty_lty(v, from_lty, to_lty)
emit_cast_lty_adjust(v, from_lty, to_adjust(_)) == build_cast_lty_adjust(v, from_lty, to_adjust)
emit_cast_adjust_lty(v, from_adjust(_), to_lty) == build_cast_adjust_lty(v, from_adjust, to_lty)

(***************************************************************************)
(* MIR places, operands and rvalues, with the types AnalysisCtxt gives.    *)
(*   place:   projection, a sequence of "Deref", "Field", "Index",         *)
(*            "Downcast"; ltys, the LTy of the local and the LTy after     *)
(*            each projection (ltys[1] is type_of(local)); addr_own and    *)
(*            addr_qty, the axes local_perms_to_desc gives for the address *)
(*            of the local                                                 *)
(*   operand: kind "Copy", "Move" or "Constant"; place; lty = type_of(op); *)
(*            null_const = util::is_null_const_operand(op)                 *)
(*   rvalue:  kind; ops; place; mutbl; unsafe_ptr (the target of a Cast    *)
(*            is an unsafe pointer); lty = type_of_rvalue(rv)              *)
(***************************************************************************)
Place(ltys, projection, addr_own, addr_qty) ==
    [ltys |-> ltys, projection |-> projection, addr_own |-> addr_own, addr_qty |-> addr_qty]

NoPlace == Place(<<OtherLTy>>, <<>>, "None", "Single")

\* acx.type_of(pl)
type_of(pl) == pl.ltys[Len(pl.ltys)]

\* Place::is_indirect
is_indirect(pl) == \E i \in DOMAIN pl.projection : pl.projection[i] = "Deref"

OpPlace(kind, pl) == [kind |-> kind, place |-> pl, lty |-> type_of(pl), null_const |-> FALSE]
OpConst(lty, null_const) ==
    [kind |-> "Constant", place |-> NoPlace, lty |-> lty, null_const |-> null_const]

Rvalue(kind, ops, pl, mutbl, unsafe_ptr, lty) ==
    [kind |-> kind, ops |-> ops, place |-> pl, mutbl |-> mutbl,
     unsafe_ptr |-> unsafe_ptr, lty |-> lty]

\* ExprRewriteVisitor::visit_place_ref on the first n projections of pl.
RECURSIVE visit_place_ref(_, _, _, _)
visit_place_ref(v, pl, n, access) ==
    IF n = 0 THEN v
    ELSE LET last_proj == pl.projection[n]
             base_lty == pl.ltys[n]
         IN  CASE last_proj = "Deref" ->
                    LET w0 == Push(v, SubPlaceDerefPointer)
                        w1 == visit_place_ref(w0, pl, n - 1, access)
                        w2 == IF is_nullable(base_lty)
                              THEN LET d == IF ~is_copy(base_lty.own)
                                            THEN emit(w1, OptionDowngrade(access = "Mut", TRUE))
                                            ELSE w1
                                   IN  emit(d, OptionUnwrap)
                              ELSE w1
                        w3 == IF is_dyn_owned(base_lty)
                              THEN emit(w2, DynOwnedDowngrade(access = "Mut"))
                              ELSE w2
                    IN  Pop(w3)
               [] last_proj = "Field" ->
                    Pop(visit_place_ref(Push(v, SubPlaceFieldBase), pl, n - 1, access))
               [] last_proj = "Index" ->
                    Pop(visit_place_ref(Push(v, SubPlaceIndexArray), pl, n - 1, access))
               [] OTHER -> v

\* visit_place that asks for immutable access whatever the use.
visit_placeImm(v, pl, access) ==
    visit_place_ref(Called(v, PlaceCall(pl, access)), pl, Len(pl.projection), "Imm")

\* visit_place that goes through a Downcast as through a Field.
visit_placeThroughDowncast(v, pl, access) ==
    visit_place_ref(
        Called(v, PlaceCall(pl, access)),
        [pl EXCEPT !.projection =
            [i \in DOMAIN @ |-> IF @[i] = "Downcast" THEN "Field" ELSE @[i]]],
        Len(pl.projection), access)

\* ExprRewriteVisitor::visit_place
visit_place(v, pl, access) ==
    visit_place_ref(Called(v, PlaceCall(pl, access)), pl, Len(pl.projection), access)

\* ExprRewriteVisitor::visit_operand
visit_operand(v, op, expect_ty) ==
    IF op.kind = "Constant" THEN v
    ELSE LET w == enter(v, SubOperandPlace, LAMBDA x : visit_place(x, op.place, "Move"))
         IN  IF expect_ty.kind # "None" /\ type_of(op.place).label
             THEN emit_cast_lty_lty(w, type_of(op.place), expect_ty)
             ELSE w

\* ExprRewriteVisitor::visit_operand_desc
visit_operand_desc(v, op, expect_desc) ==
    IF op.kind = "Constant" THEN v
    ELSE LET w == visit_place(v, op.place, "Move")
         IN  IF type_of(op.place).label
             THEN emit_cast_lty_desc(w, type_of(op.place), expect_desc)
             ELSE w

\* The loop of Rvalue::Aggregate over its operands, from operand i on.
RECURSIVE VisitAggregateOps(_, _, _)
VisitAggregateOps(v, ops, i) ==
    IF i > Len(ops) THEN v
    ELSE VisitAggregateOps(
            enter(v, SubRvalueOperand(i - 1), LAMBDA x : visit_operand(x, ops[i], NoLTy)),
            ops, i + 1)

\* Rvalue::Cast, after the operand was visited: delete a cast whose two
\* sides have the same shape over a common pointee.
VisitCastTail(v, op, rv_lty) ==
    LET op_pointee == pointee_lty(op.lty)
        rv_pointee == pointee_lty(rv_lty)
    IN  IF op_pointee # NoTy /\ op_pointee = rv_pointee
           /\ perms_to_desc_with_pointee(op_pointee, op.lty)
                = perms_to_desc_with_pointee(op_pointee, rv_lty)
        THEN emit(v, RemoveCast)
        ELSE v

\* The match of visit_rvalue on the kind of the rvalue.
VisitRvalueKinds(v, rv, expect_ty) ==
    CASE rv.kind = "Use" ->
            enter(v, SubRvalueOperand(0), LAMBDA x : visit_operand(x, rv.ops[1], expect_ty))
      [] rv.kind \in {"Repeat", "UnaryOp", "ShallowInitBox"} ->
            enter(v, SubRvalueOperand(0), LAMBDA x : visit_operand(x, rv.ops[1], NoLTy))
      [] rv.kind = "Ref" ->
            LET w == enter(v, SubRvaluePlace(0),
                           LAMBDA x : visit_place(x, rv.place, IF rv.mutbl THEN "Mut" ELSE "Imm"))
            IN  IF expect_ty.kind # "None" /\ is_nullable(expect_ty)
                THEN emit(w, OptionSome)
                ELSE w
      [] rv.kind = "AddressOf" ->
            LET w == enter(v, SubRvaluePlace(0),
                           LAMBDA x : visit_place(x, rv.place, IF rv.mutbl THEN "Mut" ELSE "Imm"))
            IN  IF expect_ty.kind = "None" THEN w
                ELSE LET w1 == IF expect_ty.own = "Cell" THEN emit(w, RawToRef(FALSE))
                               ELSE IF expect_ty.own \in {"Imm", "Mut"}
                                    THEN emit(w, RawToRef(rv.mutbl))
                               ELSE w
                     IN  IF expect_ty.option THEN emit(w1, OptionSome) ELSE w1
      [] rv.kind \in {"Len", "Discriminant", "CopyForDeref"} ->
            enter(v, SubRvaluePlace(0), LAMBDA x : visit_place(x, rv.place, "Imm"))
      [] rv.kind = "Cast" ->
            LET w0 == IF rv.ops[1].null_const /\ rv.unsafe_ptr
                         /\ expect_ty.kind # "None" /\ is_nullable(expect_ty)
                      THEN emit(v, ZeroAsPtrToNone)
                      ELSE v
                w1 == enter(w0, SubRvalueOperand(0),
                            LAMBDA x : visit_operand(x, rv.ops[1], NoLTy))
            IN  IF expect_ty.kind # "None" THEN VisitCastTail(w1, rv.ops[1], expect_ty) ELSE w1
      [] rv.kind \in {"BinaryOp", "CheckedBinaryOp"} ->
            LET w == enter(v, SubRvalueOperand(0), LAMBDA x : visit_operand(x, rv.ops[1], NoLTy))
            IN  enter(w, SubRvalueOperand(1), LAMBDA x : visit_operand(x, rv.ops[2], NoLTy))
      [] rv.kind = "Aggregate" -> VisitAggregateOps(v, rv.ops, 1)
      [] OTHER -> v

\* ExprRewriteVisitor::visit_rvalue
visit_rvalue(v, rv, expect_ty) == VisitRvalueKinds(Called(v, RvalueCall(rv)), rv, expect_ty)

(***************************************************************************)
(* Statements and terminators.                                             *)
(*   statement:  kind "Assign" (place, rvalue), "SetDiscriminant",         *)
(*               "CopyNonOverlapping", or one of the kinds with no effect  *)
(*   terminator: kind "Call" (callee, args, destination, sig),             *)
(*               "InlineAsm", or one of the kinds with no effect; sig is   *)
(*               the entry of gacx.fn_sigs for a LocalDef callee           *)
(***************************************************************************)
Assign(pl, rv) == [kind |-> "Assign", place |-> pl, rvalue |-> rv]
OtherStatement(kind) ==
    [kind |-> kind, place |-> NoPlace,
     rvalue |-> Rvalue("NullaryOp", <<>>, NoPlace, FALSE, FALSE, OtherLTy)]

NoSig == [known |-> FALSE, inputs |-> <<>>, output |-> OtherLTy]
FnSig(inputs, output) == [known |-> TRUE, inputs |-> inputs, output |-> output]

Call(callee, args, destination, sig, elem_ty) ==
    [kind |-> "Call", callee |-> callee, args |-> args, destination |-> destination,
     sig |-> sig, elem_ty |-> elem_ty]
OtherTerminator(kind) == [Call("None", <<>>, NoPlace, NoSig, NoTy) EXCEPT !.kind = kind]

\* The closure assignment_transfers_ownership of visit_statement.
assignment_transfers_ownership(pl, rv) ==
    /\ is_dyn_owned(type_of(pl))
    /\ rv.kind = "Use"
    /\ rv.ops[1].kind # "Constant"
    /\ is_dyn_owned(type_of(rv.ops[1].place))

\* AssignCellSet that never emits.
AssignCellSetNever(v, pl) == v

\* AssignCellSet that skips the rewrite when it records COMPLEX_CELL.
AssignCellSetSkipComplex(v, pl) ==
    IF is_indirect(pl) /\ IsPtr(pl.ltys[1]) /\ ~pl.ltys[1].fixed /\ pl.ltys[1].own = "Cell"
    THEN IF Len(pl.projection) > 1 \/ pl.ltys[1].qty # "Single"
         THEN Err(v, COMPLEX_CELL)
         ELSE emit(v, CellSet)
    ELSE v

\* Lines 361-377: a write through a Cell pointer.
AssignCellSet(v, pl) ==
    LET local_lty == pl.ltys[1]
    IN  IF is_indirect(pl) /\ IsPtr(local_lty) /\ ~local_lty.fixed /\ local_lty.own = "Cell"
        THEN LET w == IF Len(pl.projection) > 1 \/ local_lty.qty # "Single"
                      THEN Err(v, COMPLEX_CELL)
                      ELSE v
             IN  emit(w, CellSet)
        ELSE v

\* AssignCellUse that emits CellGet at the statement, not under enter_rvalue.
AssignCellUseAtStatement(v, pl, rv) ==
    IF rv.kind # "Use" THEN v
    ELSE IF rv.ops[1].kind # "Constant" /\ is_indirect(rv.ops[1].place)
            /\ IsPtr(rv.ops[1].place.ltys[1])
            /\ ~rv.ops[1].place.ltys[1].fixed /\ rv.ops[1].place.ltys[1].cell
         THEN emit(v, CellGet)
         ELSE v

\* Lines 381-414: Rvalue::Use into a Cell local, or out of a Cell pointer.
AssignCellUse(v, pl, rv) ==
    IF rv.kind # "Use" THEN v
    ELSE LET w1 == IF pl.addr_own = "Cell"
                   THEN LET e == IF pl.projection # <<>> \/ pl.addr_qty # "Single"
                                 THEN Err(v, COMPLEX_CELL)
                                 ELSE v
                        IN  enter(e, SubRvalue, LAMBDA x : emit(x, CellNew))
                   ELSE v
             rv_op == rv.ops[1]
             rv_local == rv_op.place.ltys[1]
         IN  IF rv_op.kind # "Constant" /\ is_indirect(rv_op.place) /\ IsPtr(rv_local)
                /\ ~rv_local.fixed /\ rv_local.cell
             THEN LET e == IF Len(pl.projection) > 1 \/ pl.addr_qty # "Single"
                           THEN Err(w1, COMPLEX_CELL)
                           ELSE w1
                  IN  enter(e, SubRvalue, LAMBDA x : emit(x, CellGet))
             ELSE w1

\* AssignRvalue whose special case does not return: the normal case follows.
AssignRvalueNoReturn(v, pl, rv) ==
    emit_cast_lty_lty(
        visit_rvalue(
            IF assignment_transfers_ownership(pl, rv)
            THEN emit_cast_lty_lty(
                    emit(enter(v, SubRvalueOperand(0),
                               LAMBDA x : enter(x, SubOperandPlace,
                                   LAMBDA y : visit_place(y, rv.ops[1].place, "Mut"))),
                         DynOwnedTake),
                    rv.lty, type_of(pl))
            ELSE v,
            rv, rv.lty),
        rv.lty, type_of(pl))

\* Lines 418-459: the body run under enter_rvalue.
AssignRvalue(v, pl, rv) ==
    IF assignment_transfers_ownership(pl, rv)
    THEN LET w1 == enter(v, SubRvalueOperand(0),
                     LAMBDA x : enter(x, SubOperandPlace,
                         LAMBDA y : visit_place(y, rv.ops[1].place, "Mut")))
             w2 == emit(w1, DynOwnedTake)
         IN  emit_cast_lty_lty(w2, rv.lty, type_of(pl))
    ELSE emit_cast_lty_lty(visit_rvalue(v, rv, rv.lty), rv.lty, type_of(pl))

\* BeginVisit that starts every visit from an empty reason set.
BeginVisitClearing(v, l) ==
    [v EXCEPT !.loc = l, !.errors = {},
              !.attempt = [made |-> FALSE, failed |-> FALSE, mark |-> 0, n |-> 0],
              !.calls = <<>>]

\* self.loc = loc; debug_assert!(self.sub_loc.is_empty())
BeginVisit(v, l) ==
    LET w == [v EXCEPT !.loc = l,
                       !.attempt = [made |-> FALSE, failed |-> FALSE, mark |-> 0, n |-> 0],
                       !.calls = <<>>]
    IN  IF w.sub_loc # <<>> THEN Panic(w) ELSE w

\* ExprRewriteVisitor::visit_statement
visit_statement(v, stmt, l) ==
    LET b == BeginVisit(v, l)
    IN  CASE stmt.kind = "Assign" ->
                LET w1 == AssignCellSet(b, stmt.place)
                    w2 == AssignCellUse(w1, stmt.place, stmt.rvalue)
                    w3 == enter(w2, SubRvalue,
                                LAMBDA x : AssignRvalue(x, stmt.place, stmt.rvalue))
                IN  enter(w3, SubDest, LAMBDA x : visit_place(x, stmt.place, "Mut"))
          [] stmt.kind \in {"SetDiscriminant", "CopyNonOverlapping"} -> Panic(b)
          [] OTHER -> b

\* The loop of the LocalDef case over the arguments, from argument i on.
RECURSIVE VisitCallArgs(_, _, _, _)
\* A loop that also visits the arguments past the declared inputs, under no
\* expected type.
VisitCallArgsTail(v, args, inputs, i) ==
    IF i > Len(args) THEN v
    ELSE VisitCallArgs(
            enter(v, SubCallArg(i - 1), LAMBDA x :
                visit_operand(x, args[i], IF i <= Len(inputs) THEN inputs[i] ELSE NoLTy)),
            args, inputs, i + 1)

VisitCallArgs(v, args, inputs, i) ==
    IF i > Len(args) THEN v
    ELSE IF i <= Len(inputs)
    THEN VisitCallArgs(
            enter(v, SubCallArg(i - 1), LAMBDA x : visit_operand(x, args[i], inputs[i])),
            args, inputs, i + 1)
    ELSE VisitCallArgs(v, args, inputs, i + 1)

\* The shape MallocSafe, CallocSafe and ReallocSafe produce, and FreeSafe and
\* ReallocSafe consume: Box<T> or Box<[T]>.
BoxDesc(single, option, pointee_ty) ==
    TypeDesc("Box", IF single THEN "Single" ELSE "Slice", FALSE, option, pointee_ty)

\* visit_ptr_offset that takes every offset for one on a mutable slice.
visit_ptr_offset_mut(v, op, result_ty) ==
    enter(v, SubRvalue, LAMBDA x :
        emit_cast_desc_desc(
            emit(enter(x, SubCallArg(0),
                       LAMBDA y : visit_operand_desc(y, op, lty_to_desc(result_ty))),
                 OffsetSlice(TRUE)),
            lty_to_desc(result_ty), lty_to_desc(result_ty)))

\* visit_ptr_offset that expects of the argument the very shape of the
\* result.
visit_ptr_offsetNoWiden(v, op, result_ty) ==
    enter(v, SubRvalue, LAMBDA x :
        emit_cast_desc_desc(
            emit(enter(x, SubCallArg(0),
                       LAMBDA y : visit_operand_desc(y, op, lty_to_desc(result_ty))),
                 IF ~lty_to_desc(result_ty).option
                 THEN OffsetSlice(lty_to_desc(result_ty).own = "Mut")
                 ELSE OptionMapOffsetSlice(lty_to_desc(result_ty).own = "Mut")),
            lty_to_desc(result_ty), lty_to_desc(result_ty)))

\* ExprRewriteVisitor::visit_ptr_offset
visit_ptr_offset(v, op, result_ty) ==
    LET result_desc == lty_to_desc(result_ty)
        arg_expect_desc == [result_desc EXCEPT !.qty = IF @ = "Single" THEN "Slice" ELSE @]
        mutbl == result_desc.own = "Mut"
    IN  IF result_desc.qty = "Array" THEN Panic(v)
        ELSE enter(v, SubRvalue, LAMBDA x :
                LET w1 == enter(x, SubCallArg(0),
                                LAMBDA y : visit_operand_desc(y, op, arg_expect_desc))
                    w2 == IF ~result_desc.option THEN emit(w1, OffsetSlice(mutbl))
                          ELSE emit(w1, OptionMapOffsetSlice(mutbl))
                IN  emit_cast_desc_desc(w2, arg_expect_desc, result_desc))

\* ExprRewriteVisitor::visit_slice_as_ptr
visit_slice_as_ptr(v, elem_ty, op, result_lty) ==
    LET op_desc == perms_to_desc_with_pointee(elem_ty, op.lty)
        result_desc == perms_to_desc_with_pointee(elem_ty, result_lty)
    IN  enter(v, SubRvalue, LAMBDA x :
            emit_cast_desc_desc(emit(x, RemoveAsPtr), op_desc, result_desc))

\* Callee::LocalDef
VisitLocalDef(v, term, pl_ty) ==
    IF ~term.sig.known THEN v
    ELSE enter(v, SubRvalue, LAMBDA x :
            LET w == VisitCallArgs(x, term.args, term.sig.inputs, 1)
            IN  IF pl_ty.label THEN emit_cast_lty_lty(w, term.sig.output, pl_ty) ELSE w)

\* The cast of the result made whether or not the result is used.
CastUsedResultAlways(v, dest_lty, pl_ty) ==
    IF pl_ty.label THEN emit_cast_lty_lty(v, dest_lty, pl_ty) ELSE v

\* The cast of the result of memcpy and memset, made when the result is used.
CastUsedResult(v, dest_lty, pl_ty) ==
    IF pl_ty.label /\ pl_ty.used THEN emit_cast_lty_lty(v, dest_lty, pl_ty) ELSE v

\* Callee::Memcpy
VisitMemcpy(v, term, pl_ty) ==
    enter(v, SubRvalue, LAMBDA x :
        LET dest_lty == term.args[1].lty
            src_lty == term.args[2].lty
            dest_pointee == pointee_lty(dest_lty)
        IN  IF dest_pointee = NoTy \/ dest_pointee # pointee_lty(src_lty) THEN x
            ELSE CastUsedResult(emit(x, MemcpySafe(~dest_lty.offset, ~src_lty.offset)),
                                dest_lty, pl_ty))

\* Callee::Memset without the return for a pointee type with no plan.
VisitMemsetNoPlanCheck(v, term, pl_ty) ==
    enter(v, SubRvalue, LAMBDA x :
        IF pointee_lty(term.args[1].lty) = NoTy THEN x
        ELSE CastUsedResult(
                emit(x, MemsetZeroize(from_ty(pointee_lty(term.args[1].lty)),
                                      ~term.args[1].lty.offset)),
                term.args[1].lty, pl_ty))

\* Callee::Memset
VisitMemset(v, term, pl_ty) ==
    enter(v, SubRvalue, LAMBDA x :
        LET dest_lty == term.args[1].lty
            dest_pointee == pointee_lty(dest_lty)
        IN  IF dest_pointee = NoTy THEN x
            ELSE IF from_ty(dest_pointee) = NoZero THEN x
            ELSE CastUsedResult(emit(x, MemsetZeroize(from_ty(dest_pointee), ~dest_lty.offset)),
                                dest_lty, pl_ty))

\* Callee::IsNull without the test of FIXED.
VisitIsNullIgnoringFixed(v, term) ==
    enter(v, SubRvalue, LAMBDA x :
        IF term.args[1].lty.non_null THEN emit(x, IsNullToConstFalse)
        ELSE emit(x, IsNullToIsNone))

\* Callee::IsNull
VisitIsNull(v, term) ==
    enter(v, SubRvalue, LAMBDA x :
        LET arg_lty == term.args[1].lty
        IN  IF arg_lty.fixed THEN x
            ELSE IF arg_lty.non_null THEN emit(x, IsNullToConstFalse)
            ELSE emit(x, IsNullToIsNone))

\* Callee::Null without the test of FIXED.
VisitNullIgnoringFixed(v, pl_ty) ==
    enter(v, SubRvalue, LAMBDA x :
        IF pl_ty.non_null THEN Panic(x) ELSE emit(x, PtrNullToNone))

\* Callee::Null
VisitNull(v, pl_ty) ==
    enter(v, SubRvalue, LAMBDA x :
        IF pl_ty.fixed THEN x
        ELSE IF pl_ty.non_null THEN Panic(x)
        ELSE emit(x, PtrNullToNone))

\* Callee::Malloc | Callee::Calloc with a cast that looks at neither FIXED
\* nor the kind of the destination's type.
VisitAllocCastAnyway(v, term) ==
    enter(v, SubRvalue, LAMBDA x :
        IF pointee_lty(type_of(term.destination)) = NoTy THEN x
        ELSE IF from_ty(pointee_lty(type_of(term.destination))) = NoZero THEN x
        ELSE emit_cast_desc_desc(
                emit(x, IF term.callee = "Malloc"
                        THEN MallocSafe(from_ty(pointee_lty(type_of(term.destination))),
                                        ~type_of(term.destination).offset)
                        ELSE CallocSafe(from_ty(pointee_lty(type_of(term.destination))),
                                        ~type_of(term.destination).offset)),
                BoxDesc(~type_of(term.destination).offset, FALSE,
                        lty_to_desc(type_of(term.destination)).pointee_ty),
                lty_to_desc(type_of(term.destination))))

\* Callee::Malloc | Callee::Calloc
VisitAlloc(v, term) ==
    enter(v, SubRvalue, LAMBDA x :
        LET dest_lty == type_of(term.destination)
            dest_pointee == pointee_lty(dest_lty)
            single == ~dest_lty.offset
        IN  IF dest_pointee = NoTy THEN x
            ELSE IF from_ty(dest_pointee) = NoZero THEN x
            ELSE LET rw == IF term.callee = "Malloc"
                           THEN MallocSafe(from_ty(dest_pointee), single)
                           ELSE CallocSafe(from_ty(dest_pointee), single)
                 IN  emit_cast_adjust_lty(emit(x, rw),
                        LAMBDA desc : BoxDesc(single, FALSE, desc.pointee_ty), dest_lty))

\* Callee::Free
VisitFree(v, term) ==
    enter(v, SubRvalue, LAMBDA x :
        LET src_lty == term.args[1].lty
            single == ~src_lty.offset
        IN  IF pointee_lty(src_lty) = NoTy THEN x
            ELSE LET w == enter(x, SubCallArg(0), LAMBDA y :
                            emit_cast_lty_adjust(y, src_lty,
                                LAMBDA desc : BoxDesc(single, desc.option, desc.pointee_ty)))
                 IN  emit(w, FreeSafe(single)))

\* Callee::Realloc
VisitRealloc(v, term) ==
    enter(v, SubRvalue, LAMBDA x :
        LET src_lty == term.args[1].lty
            dest_lty == type_of(term.destination)
            dest_pointee == pointee_lty(dest_lty)
            dest_single == ~dest_lty.offset
            src_single == ~src_lty.offset
        IN  IF dest_pointee = NoTy \/ dest_pointee # pointee_lty(src_lty) THEN x
            ELSE IF from_ty(dest_pointee) = NoZero THEN x
            ELSE LET w1 == enter(x, SubCallArg(0), LAMBDA y :
                            emit_cast_lty_adjust(y, src_lty,
                                LAMBDA desc : BoxDesc(src_single, desc.option, desc.pointee_ty)))
                     w2 == emit(w1, ReallocSafe(from_ty(dest_pointee), src_single, dest_single))
                 IN  emit_cast_adjust_lty(w2,
                        LAMBDA desc : BoxDesc(dest_single, FALSE, desc.pointee_ty), dest_lty))

\* ExprRewriteVisitor::visit_terminator
visit_terminator(v, term, l) ==
    LET b == BeginVisit(v, l)
        pl_ty == type_of(term.destination)
    IN  CASE term.kind = "InlineAsm" -> Panic(b)
          [] term.kind # "Call" -> b
          [] term.callee = "PtrOffset" -> visit_ptr_offset(b, term.args[1], pl_ty)
          [] term.callee = "SliceAsPtr" ->
                visit_slice_as_ptr(b, term.elem_ty, term.args[1], pl_ty)
          [] term.callee = "LocalDef" -> VisitLocalDef(b, term, pl_ty)
          [] term.callee = "Memcpy" -> VisitMemcpy(b, term, pl_ty)
          [] term.callee = "Memset" -> VisitMemset(b, term, pl_ty)
          [] term.callee = "IsNull" -> VisitIsNull(b, term)
          [] term.callee = "Null" -> VisitNull(b, pl_ty)
          [] term.callee \in {"Malloc", "Calloc"} -> VisitAlloc(b, term)
          [] term.callee = "Free" -> VisitFree(b, term)
          [] term.callee = "Realloc" -> VisitRealloc(b, term)
          [] OTHER -> b

(***************************************************************************)
(* SpecCast: one call of try_build_cast_desc_desc, a phase per step.       *)
(***************************************************************************)
\* Pointee types of the two shapes: an integer, and one reference type under
\* two different lifetimes.
Region1 == "'a"
Region2 == "'b"
FromPointees == {TyInt, TyRef(Region1, TyInt), TyRef(Region2, TyInt)}
ToPointees == {TyRef(Region1, TyInt)}

DescsOver(pointees) ==
    {TypeDesc(own, qty, d, o, p) :
        own \in Ownerships, qty \in Quantities, d \in BOOLEAN, o \in BOOLEAN, p \in pointees}

\* The walker is idle while a cast is run on its own, and conversely.
NoStmt == [kind |-> "None"]
NoAttempt == [made |-> FALSE, failed |-> FALSE, mark |-> 0, n |-> 0]
NoRewrites == [l \in {} |-> <<>>]
StartLoc == <<0, 0>>
StartIter == [block |-> 0, statement_index |-> 0, visited |-> 0]
\* No call of ZeroizeType::from_ty is run on its own.
NoPlanYet == <<"Pending">>
IdleZero ==
    /\ ty_in = TyInt
    /\ zero_plan = NoPlanYet

IdleCast ==
    /\ orig_from = TypeDesc("Raw", "Single", FALSE, FALSE, TyInt)
    /\ to = orig_from
    /\ cast = CastState(orig_from, <<>>, FALSE, FALSE)
    /\ pc = "idle"
    /\ trail = <<>>

InitCast ==
    /\ orig_from \in DescsOver(FromPointees)
    /\ to \in DescsOver(ToPointees)
    /\ cast = CastState(orig_from, <<>>, FALSE, FALSE)
    /\ pc = "gate"
    /\ trail = <<>>
    /\ rewrites = NoRewrites
    /\ loc = StartLoc
    /\ sub_loc = <<>>
    /\ errors = {}
    /\ panicked = FALSE
    /\ returned = FALSE
    /\ cur = NoStmt
    /\ attempt = NoAttempt
    /\ calls = <<>>
    /\ iter = StartIter
    /\ IdleZero

\* A phase has run: record the running shape, and leave on Err.
CastGoto(c, next) ==
    /\ cast' = c
    /\ trail' = Append(trail, c.from)
    /\ pc' = IF c.err THEN "done" ELSE next
    /\ UNCHANGED <<orig_from, to>>
    /\ UNCHANGED walkVars
    /\ UNCHANGED zeroVars

StepGate ==
    /\ pc = "gate"
    /\ LET g == CastGate(orig_from, to)
       IN  /\ cast' = g.c
           /\ trail' = Append(trail, g.c.from)
           /\ pc' = IF g.done THEN "done" ELSE "option_downgrade"
    /\ UNCHANGED <<orig_from, to>>
    /\ UNCHANGED walkVars
    /\ UNCHANGED zeroVars

StepOptionDowngrade ==
    /\ pc = "option_downgrade"
    /\ CastGoto(CastOptionDowngrade(cast, to), "option_open")

StepOptionOpen ==
    /\ pc = "option_open"
    /\ CastGoto(CastOptionOpen(cast, to), "dyn_owned_open")

StepDynOwnedOpen ==
    /\ pc = "dyn_owned_open"
    /\ CastGoto(CastDynOwnedOpen(cast, to), "own_early")

StepOwnEarlyIter ==
    /\ pc = "own_early"
    /\ OwnLoopRuns(cast, to)
    /\ LET i == OwnLoopIter(cast, to, TRUE)
       IN  CastGoto(i.next, IF i.stop THEN "quantity" ELSE "own_early")

StepOwnEarlyExit ==
    /\ pc = "own_early"
    /\ ~OwnLoopRuns(cast, to)
    /\ CastGoto(cast, "quantity")

StepQuantityIter ==
    /\ pc = "quantity"
    /\ QtyLoopRuns(cast, to)
    /\ LET i == QtyLoopIter(cast, to)
       IN  CastGoto(i.next, IF i.stop THEN "own_late" ELSE "quantity")

StepQuantityExit ==
    /\ pc = "quantity"
    /\ ~QtyLoopRuns(cast, to)
    /\ CastGoto(cast, "own_late")

StepOwnLateIter ==
    /\ pc = "own_late"
    /\ OwnLoopRuns(cast, to)
    /\ LET i == OwnLoopIter(cast, to, FALSE)
       IN  CastGoto(i.next, IF i.stop THEN "dyn_owned_close" ELSE "own_late")

StepOwnLateExit ==
    /\ pc = "own_late"
    /\ ~OwnLoopRuns(cast, to)
    /\ CastGoto(cast, "dyn_owned_close")

StepDynOwnedClose ==
    /\ pc = "dyn_owned_close"
    /\ CastGoto(CastDynOwnedClose(cast, to), "option_close")

StepOptionClose ==
    /\ pc = "option_close"
    /\ CastGoto(CastOptionClose(cast, to), "final")

StepFinal ==
    /\ pc = "final"
    /\ CastGoto(CastFinal(cast, to), "done")

NextCast ==
    \/ StepGate
    \/ StepOptionDowngrade
    \/ StepOptionOpen
    \/ StepDynOwnedOpen
    \/ StepOwnEarlyIter
    \/ StepOwnEarlyExit
    \/ StepQuantityIter
    \/ StepQuantityExit
    \/ StepOwnLateIter
    \/ StepOwnLateExit
    \/ StepDynOwnedClose
    \/ StepOptionClose
    \/ StepFinal

SpecCast == InitCast /\ [][NextCast]_vars

\* The call runs on: try_build_cast_desc_desc is straight-line code and loops
\* with nothing to wait for, so a phase that can run does run.
SpecCastFair == InitCast /\ [][NextCast]_vars /\ WF_vars(NextCast)

\* The call has returned: Ok or Err.
CastOk == pc = "done" /\ ~cast.err
CastFailed == pc = "done" /\ cast.err

(***************************************************************************)
(* Spec: one run of gen_mir_rewrites over a body the steps choose as they  *)
(* go: each step hands the next statement or terminator of the body to     *)
(* visit_statement or visit_terminator.  The body has at most MaxVisits    *)
(* statements and terminators.                                             *)
(***************************************************************************)
MaxVisits == 2

\* Pointee types of the pointers of the body.
StructS == TyStruct("S", <<<<"a", TyInt>>, <<"b", TyBool>>>>)
StructP == TyStruct("P", <<<<"a", TyInt>>, <<"next", TyRawPtr(TyInt)>>>>)
ArrayOfP == TyArray(StructP)

\* The classifications of the pointers of the body.
BoxSingle == Cls("Box", "Single", FALSE, FALSE, FALSE, FALSE, TRUE, FALSE)
BoxSliceOpt == Cls("Box", "Slice", FALSE, TRUE, FALSE, TRUE, TRUE, FALSE)
BoxDynOwned == Cls("Box", "Single", TRUE, FALSE, FALSE, FALSE, TRUE, FALSE)
BoxDynOwnedOpt == Cls("Box", "Single", TRUE, TRUE, FALSE, FALSE, TRUE, FALSE)
BoxOffsetPtr == Cls("Box", "OffsetPtr", FALSE, FALSE, FALSE, TRUE, TRUE, FALSE)
ImmSingle == Cls("Imm", "Single", FALSE, FALSE, FALSE, FALSE, FALSE, FALSE)
ImmSlice == Cls("Imm", "Slice", FALSE, FALSE, FALSE, TRUE, TRUE, FALSE)
MutSingleOpt == Cls("Mut", "Single", FALSE, TRUE, FALSE, FALSE, FALSE, FALSE)
MutSlice == Cls("Mut", "Slice", FALSE, FALSE, FALSE, TRUE, TRUE, FALSE)
CellSingle == Cls("Cell", "Single", FALSE, FALSE, FALSE, FALSE, TRUE, TRUE)
CellSlice == Cls("Cell", "Slice", FALSE, FALSE, FALSE, TRUE, TRUE, TRUE)
RawMutFixed == Cls("RawMut", "Single", FALSE, FALSE, TRUE, FALSE, TRUE, FALSE)
RawOpt == Cls("Raw", "Single", FALSE, TRUE, FALSE, FALSE, TRUE, FALSE)
\* A FIXED pointer whose permissions lack NON_NULL: its shape is that of the type
\* as written, a plain raw pointer.
RawFixedNullable ==
    [Cls("Raw", "Single", FALSE, FALSE, TRUE, FALSE, TRUE, FALSE) EXCEPT !.non_null = FALSE]

Classes ==
    {BoxSingle, BoxSliceOpt, BoxDynOwned, BoxDynOwnedOpt, BoxOffsetPtr, ImmSingle, ImmSlice,
     MutSingleOpt, MutSlice, CellSingle, CellSlice, RawMutFixed, RawOpt, RawFixedNullable}
FewClasses == {BoxSingle, BoxDynOwned, ImmSlice, MutSingleOpt, RawMutFixed}

\* A raw pointer to an integer, and a local of that type.
RawPtrTo(cls, pointee) == LTy("RawPtr", cls, pointee, NoTy)
PtrLocal(cls) == Place(<<RawPtrTo(cls, TyInt)>>, <<>>, "Imm", "Single")
\* `*p`
DerefOf(cls) == Place(<<RawPtrTo(cls, TyInt), OtherLTy>>, <<"Deref">>, "Imm", "Single")
\* `(*p).f` and `(*p)[i]`
DerefThen(cls, elem) ==
    Place(<<RawPtrTo(cls, StructS), OtherLTy, OtherLTy>>, <<"Deref", elem>>, "Imm", "Single")
\* `*(s.f)`, the field a pointer
FieldDeref(cls) ==
    Place(<<OtherLTy, RawPtrTo(cls, TyInt), OtherLTy>>, <<"Field", "Deref">>, "Imm", "Single")
\* `**pp`
DoubleDeref(outer, inner) ==
    Place(<<RawPtrTo(outer, TyRawPtr(TyInt)), RawPtrTo(inner, TyInt), OtherLTy>>,
          <<"Deref", "Deref">>, "Imm", "Single")
\* `((*p) as V).f`
DerefDowncast(cls) ==
    Place(<<RawPtrTo(cls, StructS), OtherLTy, OtherLTy, OtherLTy>>,
          <<"Deref", "Downcast", "Field">>, "Imm", "Single")
\* `*((x as V).f)`, the field a pointer
DowncastDeref(cls) ==
    Place(<<OtherLTy, OtherLTy, RawPtrTo(cls, TyInt), OtherLTy>>,
          <<"Downcast", "Field", "Deref">>, "Imm", "Single")
\* a local that is no pointer, its address classified (own, qty)
PlainLocal(addr_own, addr_qty) == Place(<<OtherLTy>>, <<>>, addr_own, addr_qty)
\* `x.f`, `x[i]`, `x as Variant`
PlainThen(elem, addr_own) == Place(<<OtherLTy, OtherLTy>>, <<elem>>, addr_own, "Single")

ValuePlaces ==
    {PlainLocal("Imm", "Single"), PlainLocal("Cell", "Single"), PlainLocal("Cell", "Slice"),
     PlainThen("Field", "Cell"), PlainThen("Index", "Imm"), PlainThen("Downcast", "Imm")}
        \cup {DerefOf(cls) : cls \in {BoxSliceOpt, BoxDynOwned, MutSingleOpt, CellSingle,
                                      CellSlice, RawMutFixed}}
        \cup {DerefThen(CellSingle, "Field"), DerefThen(BoxDynOwnedOpt, "Index"),
              FieldDeref(MutSingleOpt)}
        \cup {DoubleDeref(BoxDynOwnedOpt, MutSingleOpt), DerefDowncast(MutSingleOpt),
              DowncastDeref(BoxSliceOpt)}

ConstInt == OpConst(OtherLTy, FALSE)
ConstNull == OpConst(OtherLTy, TRUE)

UseOf(op) == Rvalue("Use", <<op>>, NoPlace, FALSE, FALSE, op.lty)

ValueRvalues ==
    {UseOf(ConstInt),
     Rvalue("BinaryOp", <<OpPlace("Copy", DerefOf(MutSingleOpt)), ConstInt>>,
            NoPlace, FALSE, FALSE, OtherLTy),
     Rvalue("Aggregate", <<ConstInt, OpPlace("Move", DerefOf(BoxDynOwned))>>,
            NoPlace, FALSE, FALSE, OtherLTy),
     Rvalue("Len", <<>>, DerefThen(BoxDynOwnedOpt, "Index"), FALSE, FALSE, OtherLTy),
     Rvalue("NullaryOp", <<>>, NoPlace, FALSE, FALSE, OtherLTy)}
        \cup {UseOf(OpPlace("Copy", DerefOf(cls))) : cls \in {CellSingle, CellSlice, BoxSliceOpt}}

\* `*pp`, a pointer behind the pointer pp
DerefToPtr(pp, cls) ==
    Place(<<RawPtrTo(pp, TyRawPtr(TyInt)), RawPtrTo(cls, TyInt)>>, <<"Deref">>, "Imm", "Single")

PointerRvalues ==
    {UseOf(OpPlace("Move", PtrLocal(cls))) : cls \in FewClasses}
        \cup {UseOf(OpPlace("Move", DerefToPtr(BoxDynOwnedOpt, BoxDynOwnedOpt)))}
        \cup {Rvalue("Ref", <<>>, PlainLocal("Imm", "Single"), m, FALSE,
                     LTy("Ref", cls, TyInt, NoTy)) : m \in BOOLEAN, cls \in {ImmSingle, MutSingleOpt}}
        \cup {Rvalue("AddressOf", <<>>, DerefOf(MutSingleOpt), TRUE, FALSE, RawPtrTo(cls, TyInt)) :
                     cls \in {CellSingle, MutSingleOpt, RawMutFixed}}
        \cup {Rvalue("Cast", <<ConstNull>>, NoPlace, FALSE, TRUE, RawPtrTo(cls, TyInt)) :
                     cls \in {MutSingleOpt, BoxSingle, RawFixedNullable}}
        \cup {Rvalue("Cast", <<OpPlace("Copy", PtrLocal(ImmSlice))>>, NoPlace, FALSE, TRUE,
                     RawPtrTo(cls, TyInt)) : cls \in {ImmSlice, ImmSingle}}

\* The assignments of the body: values into value places, pointers into
\* pointer locals.
Assignments ==
    {Assign(pl, rv) : pl \in ValuePlaces, rv \in ValueRvalues}
        \cup {Assign(PtrLocal(cls), rv) : cls \in {BoxDynOwned, MutSingleOpt, ImmSingle},
                                          rv \in PointerRvalues}

NoOpStatements ==
    {OtherStatement(k) : k \in {"FakeRead", "Deinit", "StorageLive", "StorageDead", "Retag",
                                "AscribeUserType", "Coverage", "Nop"}}
UnsupportedStatements == {OtherStatement(k) : k \in {"SetDiscriminant", "CopyNonOverlapping"}}

ArgOf(cls, pointee) == OpPlace("Copy", Place(<<RawPtrTo(cls, pointee)>>, <<>>, "Imm", "Single"))
DestOf(cls, pointee) == Place(<<RawPtrTo(cls, pointee)>>, <<>>, "Imm", "Single")
CallOn(callee, args, dest) == Call(callee, args, dest, NoSig, NoTy)

PtrOffsetCalls ==
    {CallOn("PtrOffset", <<ArgOf(a, TyInt)>>, DestOf(r, TyInt)) :
        a \in {ImmSlice, MutSlice, BoxSliceOpt, ImmSingle},
        r \in {ImmSlice, ImmSingle, MutSlice, MutSingleOpt}}

SliceAsPtrCalls ==
    {Call("SliceAsPtr", <<OpPlace("Copy", Place(<<LTy("Ref", a, TyInt, NoTy)>>, <<>>,
                                               "Imm", "Single"))>>,
          DestOf(r, TyInt), NoSig, TyInt) :
        a \in {ImmSlice, MutSlice}, r \in {ImmSlice, ImmSingle, RawOpt}}

LocalDefCalls ==
    {Call("LocalDef", args, DestOf(r, TyInt), sig, NoTy) :
        args \in {<<ArgOf(BoxSingle, TyInt), ConstInt, ArgOf(MutSlice, TyInt)>>},
        r \in {ImmSingle, BoxDynOwned},
        sig \in {NoSig,
                 FnSig(<<RawPtrTo(ImmSingle, TyInt), OtherLTy>>, RawPtrTo(BoxSingle, TyInt)),
                 FnSig(<<RawPtrTo(BoxSingle, TyInt), OtherLTy, RawPtrTo(ImmSingle, TyInt)>>,
                       RawPtrTo(ImmSingle, TyInt))}}
        \cup {Call("LocalDef", <<ConstInt>>, PlainLocal("Imm", "Single"),
                   FnSig(<<OtherLTy>>, OtherLTy), NoTy)}

\* A `*mut c_void` whose pointee was inferred.
VoidPtr(cls, sole) == LTy("RawPtr", cls, TyEnum("c_void"), sole)
VoidArg(cls, sole) == OpPlace("Copy", Place(<<VoidPtr(cls, sole)>>, <<>>, "Imm", "Single"))

MemcpyCalls ==
    {CallOn("Memcpy", <<VoidArg(d, TyInt), VoidArg(ImmSlice, sp), ConstInt>>,
            Place(<<VoidPtr(r, TyInt)>>, <<>>, "Imm", "Single")) :
        d \in {MutSlice, MutSingleOpt, BoxSingle}, sp \in {TyInt, StructS, NoTy},
        r \in {MutSlice, ImmSingle}}

MemsetCalls ==
    {CallOn("Memset", <<VoidArg(d, p), ConstInt, ConstInt>>,
            Place(<<VoidPtr(r, p)>>, <<>>, "Imm", "Single")) :
        d \in {MutSlice, BoxSingle}, p \in {TyInt, StructS, StructP, ArrayOfP},
        r \in {MutSlice, ImmSingle}}

IsNullCalls ==
    {CallOn("IsNull", <<ArgOf(a, TyInt)>>, PlainLocal("Imm", "Single")) : a \in Classes}

NullCalls == {CallOn("Null", <<>>, DestOf(r, TyInt)) : r \in Classes}

AllocCalls ==
    {CallOn(callee, <<ConstInt>>, Place(<<VoidPtr(r, p)>>, <<>>, "Imm", "Single")) :
        callee \in {"Malloc", "Calloc"},
        r \in {BoxSingle, BoxSliceOpt, BoxDynOwned, ImmSingle, RawMutFixed},
        p \in {TyInt, StructS, StructP}}
        \cup {CallOn(callee, <<ConstInt>>,
                     Place(<<LTy("Ref", BoxSliceOpt, TyEnum("c_void"), TyInt)>>, <<>>,
                           "Imm", "Single")) :
                callee \in {"Malloc", "Calloc"}}

FreeCalls ==
    {CallOn("Free", <<ArgOf(a, TyInt)>>, PlainLocal("Imm", "Single")) : a \in Classes}
        \cup {CallOn("Free", <<ConstInt>>, PlainLocal("Imm", "Single"))}

ReallocOf(a, sp, r, dp) ==
    CallOn("Realloc", <<VoidArg(a, sp), ConstInt>>,
           Place(<<VoidPtr(r, dp)>>, <<>>, "Imm", "Single"))

ReallocCalls ==
    {ReallocOf(a, TyInt, r, TyInt) :
        a \in {BoxSingle, BoxSliceOpt, BoxDynOwned, ImmSingle, RawMutFixed},
        r \in {BoxSingle, BoxSliceOpt, MutSlice}}
        \cup {ReallocOf(a, sp, BoxSingle, dp) :
                a \in {BoxSingle, BoxDynOwned},
                sp \in {TyInt, StructP, NoTy}, dp \in {StructS, StructP}}

OtherCalls == {CallOn("Other", <<ConstInt>>, PlainLocal("Imm", "Single"))}

NoOpTerminators ==
    {OtherTerminator(k) : k \in {"Goto", "SwitchInt", "Resume", "Abort", "Return",
                                 "Unreachable", "Drop", "DropAndReplace", "Assert", "Yield",
                                 "GeneratorDrop", "FalseEdge", "FalseUnwind"}}

\* ExprRewriteVisitor::new, and the fields of the visitor as they stand.
NewVisitor ==
    [rewrites |-> NoRewrites, loc |-> StartLoc, sub_loc |-> <<>>, errors |-> {},
     panicked |-> FALSE, attempt |-> NoAttempt, calls |-> <<>>]

Visitor ==
    [rewrites |-> rewrites, loc |-> loc, sub_loc |-> sub_loc, errors |-> errors,
     panicked |-> panicked, attempt |-> attempt, calls |-> calls]

SetVisitor(v) ==
    /\ rewrites' = v.rewrites
    /\ loc' = v.loc
    /\ sub_loc' = v.sub_loc
    /\ errors' = v.errors
    /\ panicked' = v.panicked
    /\ attempt' = v.attempt
    /\ calls' = v.calls

Init ==
    /\ IdleCast
    /\ IdleZero
    /\ rewrites = NewVisitor.rewrites
    /\ loc = NewVisitor.loc
    /\ sub_loc = NewVisitor.sub_loc
    /\ errors = NewVisitor.errors
    /\ panicked = NewVisitor.panicked
    /\ attempt = NewVisitor.attempt
    /\ calls = NewVisitor.calls
    /\ returned = FALSE
    /\ cur = NoStmt
    /\ iter = StartIter

\* The loops of gen_mir_rewrites have a statement or terminator left.
Walking == ~returned /\ ~panicked /\ iter.visited < MaxVisits

NextLocation == <<iter.block, iter.statement_index>>

\* The inner loop: v.visit_statement(stmt, loc)
StatementStep(stmt) ==
    /\ SetVisitor(visit_statement(Visitor, stmt, NextLocation))
    /\ cur' = stmt
    /\ iter' = [iter EXCEPT !.statement_index = @ + 1, !.visited = @ + 1]
    /\ UNCHANGED <<returned>>
    /\ UNCHANGED castVars
    /\ UNCHANGED zeroVars

\* The outer loop: v.visit_terminator(term, loc), then the next block
TerminatorStep(term) ==
    /\ SetVisitor(visit_terminator(Visitor, term, NextLocation))
    /\ cur' = term
    /\ iter' = [block |-> iter.block + 1, statement_index |-> 0, visited |-> iter.visited + 1]
    /\ UNCHANGED <<returned>>
    /\ UNCHANGED castVars
    /\ UNCHANGED zeroVars

VisitAssign ==
    /\ Walking
    /\ \E stmt \in Assignments : StatementStep(stmt)
VisitNoOpStatement ==
    /\ Walking
    /\ \E stmt \in NoOpStatements : StatementStep(stmt)
VisitUnsupportedStatement ==
    /\ Walking
    /\ \E stmt \in UnsupportedStatements : StatementStep(stmt)
VisitPtrOffset ==
    /\ Walking
    /\ \E term \in PtrOffsetCalls : TerminatorStep(term)
VisitSliceAsPtr ==
    /\ Walking
    /\ \E term \in SliceAsPtrCalls : TerminatorStep(term)
VisitLocalDefCall ==
    /\ Walking
    /\ \E term \in LocalDefCalls : TerminatorStep(term)
VisitMemcpyCall ==
    /\ Walking
    /\ \E term \in MemcpyCalls : TerminatorStep(term)
VisitMemsetCall ==
    /\ Walking
    /\ \E term \in MemsetCalls : TerminatorStep(term)
VisitIsNullCall ==
    /\ Walking
    /\ \E term \in IsNullCalls : TerminatorStep(term)
VisitNullCall ==
    /\ Walking
    /\ \E term \in NullCalls : TerminatorStep(term)
VisitAllocCall ==
    /\ Walking
    /\ \E term \in AllocCalls : TerminatorStep(term)
VisitFreeCall ==
    /\ Walking
    /\ \E term \in FreeCalls : TerminatorStep(term)
VisitReallocCall ==
    /\ Walking
    /\ \E term \in ReallocCalls : TerminatorStep(term)
VisitOtherCall ==
    /\ Walking
    /\ \E term \in OtherCalls : TerminatorStep(term)
VisitNoOpTerminator ==
    /\ Walking
    /\ \E term \in NoOpTerminators : TerminatorStep(term)
VisitInlineAsm ==
    /\ Walking
    /\ TerminatorStep(OtherTerminator("InlineAsm"))

\* A block whose terminator is None: the outer loop goes on to the next block.
NoTerminator ==
    /\ ~returned /\ ~panicked
    /\ iter.statement_index > 0
    /\ iter' = [iter EXCEPT !.block = @ + 1, !.statement_index = 0]
    /\ UNCHANGED <<rewrites, loc, sub_loc, errors, panicked, returned, cur, attempt, calls>>
    /\ UNCHANGED castVars
    /\ UNCHANGED zeroVars

\* The body has no block left: gen_mir_rewrites returns (out, errors).
Return ==
    /\ ~returned /\ ~panicked
    /\ iter.statement_index = 0
    /\ returned' = TRUE
    /\ UNCHANGED <<rewrites, loc, sub_loc, errors, panicked, cur, attempt, calls, iter>>
    /\ UNCHANGED castVars
    /\ UNCHANGED zeroVars

Next ==
    \/ VisitAssign
    \/ VisitNoOpStatement
    \/ VisitUnsupportedStatement
    \/ VisitPtrOffset
    \/ VisitSliceAsPtr
    \/ VisitLocalDefCall
    \/ VisitMemcpyCall
    \/ VisitMemsetCall
    \/ VisitIsNullCall
    \/ VisitNullCall
    \/ VisitAllocCall
    \/ VisitFreeCall
    \/ VisitReallocCall
    \/ VisitOtherCall
    \/ VisitNoOpTerminator
    \/ VisitInlineAsm
    \/ NoTerminator
    \/ Return

Spec == Init /\ [][Next]_vars

(***************************************************************************)
(* SpecZero: one call of ZeroizeType::from_ty on a type of nesting depth   *)
(* at most two.                                                            *)
(***************************************************************************)
\* The types with no component, of every kind from_ty tells apart.
LeafTypes ==
    {TyInt, TyUint, TyBool, TyFloat, TyRawPtr(TyInt), TyRef(Region1, TyInt),
     TyEnum("E"), TyUnion("N")}

\* Arrays and structs (of no, one and two fields) over the leaf types.
Depth1Types ==
    LeafTypes
        \cup {TyArray(e) : e \in LeafTypes}
        \cup {TyStruct("U", <<>>)}
        \cup {TyStruct("V", <<<<"x", a>>>>) : a \in LeafTypes}
        \cup {TyStruct("S", <<<<"a", a>>, <<"b", b>>>>) : a \in LeafTypes, b \in LeafTypes}

\* Arrays and structs over those.
ZeroTypes ==
    Depth1Types
        \cup {TyArray(e) : e \in Depth1Types}
        \cup {TyStruct("T", <<<<"head", a>>, <<"tail", b>>>>) :
                  a \in Depth1Types, b \in {TyUint, TyRawPtr(TyInt)}}

InitZero ==
    /\ ty_in \in ZeroTypes
    /\ zero_plan = NoPlanYet
    /\ IdleCast
    /\ rewrites = NoRewrites
    /\ loc = StartLoc
    /\ sub_loc = <<>>
    /\ errors = {}
    /\ panicked = FALSE
    /\ returned = FALSE
    /\ cur = NoStmt
    /\ attempt = NoAttempt
    /\ calls = <<>>
    /\ iter = StartIter

\* ZeroizeType::from_ty(tcx, ty) returns.
ZeroDerive ==
    /\ zero_plan = NoPlanYet
    /\ zero_plan' = from_ty(ty_in)
    /\ UNCHANGED ty_in
    /\ UNCHANGED castVars
    /\ UNCHANGED walkVars

NextZero == ZeroDerive

SpecZero == InitZero /\ [][NextZero]_vars

(***************************************************************************)
(* Helpers of the properties.                                              *)
(***************************************************************************)
\* The four axes of a shape, without its pointee type.
Axes(d) == [own |-> d.own, qty |-> d.qty, dyn_owned |-> d.dyn_owned, option |-> d.option]

\* Number of rewrites of the given kind in a sequence of rewrite kinds.
CountKind(seq, kind) == Cardinality({i \in DOMAIN seq : seq[i].kind = kind})

SamePointee == erase_regions(orig_from.pointee_ty) = erase_regions(to.pointee_ty)

\* The effect of one rewrite on a shape, as the rewrite kinds document it.
\* "CellPtr" is the `*const Cell<T>` between CastRawMutToCellPtr and the
\* UnsafeCastRawToRef that follows it.
ReplayStep(d, rk) ==
    CASE rk.kind \in {"OptionUnwrap", "OptionMapBegin"} -> [d EXCEPT !.option = FALSE]
      [] rk.kind \in {"OptionSome", "OptionMapEnd"} -> [d EXCEPT !.option = TRUE]
      [] rk.kind \in {"DynOwnedUnwrap", "DynOwnedDowngrade"} -> [d EXCEPT !.dyn_owned = FALSE]
      [] rk.kind = "DynOwnedWrap" -> [d EXCEPT !.dyn_owned = TRUE]
      [] rk.kind = "SliceFirst" -> [d EXCEPT !.qty = "Single"]
      [] rk.kind \in {"OptionDowngrade", "Reborrow"} ->
            [d EXCEPT !.own = IF rk.b1 THEN "Mut" ELSE "Imm"]
      [] rk.kind = "CellFromMut" -> [d EXCEPT !.own = "Cell"]
      [] rk.kind \in {"CastRefToRaw", "CastRawToRaw"} ->
            [d EXCEPT !.own = IF rk.b1 THEN "RawMut" ELSE "Raw"]
      [] rk.kind = "AsPtr" -> [d EXCEPT !.own = "RawMut"]
      [] rk.kind = "CastRawMutToCellPtr" -> [d EXCEPT !.own = "CellPtr"]
      [] rk.kind = "UnsafeCastRawToRef" ->
            [d EXCEPT !.own = IF d.own = "CellPtr" THEN "Cell"
                              ELSE IF rk.b1 THEN "Mut" ELSE "Imm"]
      [] OTHER -> d

RECURSIVE Replay(_, _)
Replay(d, seq) == IF seq = <<>> THEN d ELSE Replay(ReplayStep(d, Head(seq)), Tail(seq))

\* Slice and OffsetPtr name the same representation.
QtyClass(qty) == IF qty = "OffsetPtr" THEN "Slice" ELSE qty
ModOffsetPtr(a) == [a EXCEPT !.qty = QtyClass(@)]

(***************************************************************************)
(* Properties of the cast synthesizer (checked under SpecCast).            *)
(***************************************************************************)
\* C1: a cast from a shape to the very same shape returns Ok at the gate and
\* calls the emit callback zero times.
C1_Identity ==
    orig_from = to =>
        /\ pc \in {"gate", "done"}
        /\ pc = "done" => (~cast.err /\ cast.emitted = <<>>)

C1_Witness ==
    /\ orig_from = to
    /\ orig_from.option /\ orig_from.dyn_owned /\ orig_from.own = "Box"
    /\ CastOk

\* C2: when the pointee types differ after lifetime erasure, the cast returns
\* Err at the gate with zero rewrites emitted, whatever the four axes are.
C2_PointeeGate ==
    ~SamePointee =>
        /\ pc \in {"gate", "done"}
        /\ pc = "done" => (cast.err /\ cast.emitted = <<>>)

C2_Witness ==
    /\ ~SamePointee
    /\ Axes(orig_from) = Axes(to)
    /\ CastFailed

\* C3 as stated: Ok is returned only with the running shape equal to `to`,
\* and then the emitted rewrites, replayed from `from` by their documented
\* effect, end exactly in `to` on the four axes.
C3_ReplayExact ==
    pc = "done" =>
        /\ ~cast.err => cast.from = to
        /\ ~cast.err => Replay(Axes(orig_from), cast.emitted) = Axes(to)

\* C3 as amended: the same, with the replay ending in `to` up to the
\* zero-cost identification of Slice with OffsetPtr, for which no rewrite is
\* emitted.
C3_ReplayModOffsetPtr ==
    pc = "done" =>
        /\ ~cast.err => cast.from = to
        /\ ~cast.err =>
              ModOffsetPtr(Replay(Axes(orig_from), cast.emitted)) = ModOffsetPtr(Axes(to))
        /\ (SamePointee /\ Axes(cast.from) # Axes(to)) => cast.err

C3_Witness ==
    /\ CastOk
    /\ Len(cast.emitted) >= 5
    /\ orig_from.qty = "OffsetPtr" /\ to.qty = "Single"
    /\ orig_from.own = "Box" /\ to.own = "Raw"

\* C4: a successful cast between two nullable shapes that differ on an axis
\* emits exactly one OptionMapBegin and one OptionMapEnd, the latter last, no
\* OptionUnwrap and no OptionSome; OptionMapBegin comes first, or second after
\* an OptionDowngrade, so every other rewrite lies inside the map.
C4_NullablePassThrough ==
    (CastOk /\ orig_from.option /\ to.option /\ Axes(orig_from) # Axes(to)) =>
        LET e == cast.emitted
            n == Len(e)
        IN  /\ CountKind(e, "OptionMapBegin") = 1
            /\ CountKind(e, "OptionMapEnd") = 1
            /\ CountKind(e, "OptionUnwrap") = 0
            /\ CountKind(e, "OptionSome") = 0
            /\ n >= 2
            /\ e[n] = OptionMapEnd
            /\ \/ e[1] = OptionMapBegin
               \/ e[1].kind = "OptionDowngrade" /\ n >= 3 /\ e[2] = OptionMapBegin
            /\ CountKind(e, "OptionDowngrade") <= 1

C4_Witness ==
    /\ CastOk /\ orig_from.option /\ to.option
    /\ Len(cast.emitted) >= 5
    /\ cast.emitted[1].kind = "OptionDowngrade"
    /\ CountKind(cast.emitted, "SliceFirst") = 1

(***************************************************************************)
(* Properties of the walker (checked under Spec).                          *)
(***************************************************************************)
\* The rewrites of the Location visited last, and their kinds and paths.
Here == At(rewrites, loc)
PathRvalue == <<SubRvalue>>
PathCallArg0 == <<SubRvalue, SubCallArg(0)>>

\* The statement or terminator visited last is a call of one of the callees.
IsCallOf(callees) == cur.kind = "Call" /\ cur.callee \in callees

\* C5: between two visits, and after the last, the sub-location path is
\* empty: every visit_statement and visit_terminator call that returns,
\* whatever the statement or terminator and whatever early return a handler
\* took, has popped every step its enter() calls pushed.
C5_PathStack == ~panicked => sub_loc = <<>>

\* A second visit has returned, the one before it and this one both having
\* emitted under nested enter() calls.
C5_Witness ==
    /\ ~panicked /\ sub_loc = <<>>
    /\ iter.visited = MaxVisits
    /\ \E l \in DOMAIN rewrites :
          l # loc /\ \E i \in DOMAIN rewrites[l] : Len(rewrites[l][i].sub_loc) >= 3
    /\ IsCallOf({"Realloc"}) /\ Len(Here) >= 3
    /\ Here[1].sub_loc = PathCallArg0

\* C6 as stated: after a cast attempt of the walker failed, the list of the
\* Location holds none of the rewrites emitted during that attempt: it is as
\* long as it was when the attempt began.
C6_DiscardOnFailure ==
    (attempt.made /\ attempt.failed) => Len(Here) = attempt.mark

\* C7 as stated: when a call pattern cannot establish a valid cast, no
\* rewrite is emitted for that call and the walk goes on: the walker has not
\* panicked, so gen_mir_rewrites can still return its output.
C7_CastFailureNonFatal ==
    (cur.kind = "Call" /\ attempt.made /\ attempt.failed) =>
        /\ ~panicked
        /\ Here = <<>>

\* The call visited last is a bulk copy or a resize whose two pointers do not
\* resolve to one pointee type, or a bulk fill, an allocation or a resize
\* whose pointee type has no Zero-Fill Plan.
NoCommonPointee(term) ==
    \/ /\ term.callee = "Memcpy"
       /\ pointee_lty(term.args[1].lty) # pointee_lty(term.args[2].lty)
    \/ /\ term.callee = "Realloc"
       /\ pointee_lty(type_of(term.destination)) # pointee_lty(term.args[1].lty)

NoZeroPlan(term) ==
    \/ /\ term.callee = "Memset"
       /\ from_ty(pointee_lty(term.args[1].lty)) = NoZero
    \/ /\ term.callee \in {"Malloc", "Calloc", "Realloc"}
       /\ from_ty(pointee_lty(type_of(term.destination))) = NoZero

\* C8: a bulk copy or resize with no common pointee type, and a bulk fill,
\* allocation or resize with no Zero-Fill Plan, appends nothing at the call's
\* Location, records no suppression reason, and returns.
C8_UntouchedCall ==
    [][(/\ iter'.visited = iter.visited + 1
        /\ cur'.kind = "Call"
        /\ cur'.callee \in {"Memcpy", "Memset", "Malloc", "Calloc", "Realloc"}
        /\ NoCommonPointee(cur') \/ NoZeroPlan(cur'))
       => (/\ At(rewrites', loc') = <<>>
           /\ rewrites' = rewrites
           /\ errors' = errors
           /\ ~panicked')]_vars

\* A resize of a pointer to a struct with a pointer field, which has no
\* plan, visited after a statement that recorded a reason and emitted.
C8_Witness ==
    /\ IsCallOf({"Realloc"})
    /\ ~NoCommonPointee(cur) /\ NoZeroPlan(cur)
    /\ Here = <<>>
    /\ errors # {} /\ DOMAIN rewrites # {}
    /\ iter.visited = MaxVisits

\* The assignment visited last writes through a pointer local that is not
\* FIXED and is classified Cell.
CellWrite ==
    /\ cur.kind = "Assign"
    /\ is_indirect(cur.place)
    /\ IsPtr(cur.place.ltys[1]) /\ ~cur.place.ltys[1].fixed
    /\ cur.place.ltys[1].own = "Cell"

\* Its destination has at most one projection and the pointer is Single.
SimpleCellWrite ==
    Len(cur.place.projection) <= 1 /\ cur.place.ltys[1].qty = "Single"

\* CellSet is emitted at the statement itself (the empty path).
CellSetEmitted == \E i \in DOMAIN Here : Here[i] = MirRewrite(CellSet, <<>>)

OwningShape(lty) ==
    /\ lty.own = "Box"
    /\ ~lty.dyn_owned
    /\ QtyClass(lty.qty) = (IF lty.offset THEN "Slice" ELSE "Single")

\* C10 as stated: when the argument of a release call is a pointer whose
\* native shape is not the owning shape, FreeSafe at [Rvalue] is emitted only
\* after a cast rewrite at [Rvalue, CallArg(0)].
C10_CastBeforeFree ==
    (IsCallOf({"Free"}) /\ IsPtr(cur.args[1].lty) /\ ~OwningShape(cur.args[1].lty)) =>
        \A i \in DOMAIN Here :
            (Here[i].kind.kind = "FreeSafe" /\ Here[i].sub_loc = PathRvalue) =>
                \E j \in 1..(i - 1) : Here[j].sub_loc = PathCallArg0

(***************************************************************************)
(* Further properties of the cast synthesizer (checked under SpecCast).    *)
(***************************************************************************)
\* C11 as stated: every cast from ownership Rc to another ownership returns
\* Err, whatever the multiplicity, nullable and dyn-owned flags of both sides.
C11_RcAlwaysFails ==
    (pc = "done" /\ orig_from.own = "Rc" /\ to.own # "Rc") => cast.err

\* The two shapes agree on ownership, nullable and dyn-owned, and on the
\* pointee type.
OnlyQuantityDiffers ==
    /\ SamePointee
    /\ orig_from.own = to.own
    /\ orig_from.option = to.option
    /\ orig_from.dyn_owned = to.dyn_owned

\* C12 as stated: a cast from multiplicity Array to Slice succeeds, and a cast
\* from Array to Single or OffsetPtr fails.
C12_ArrayOnlyToSlice ==
    (pc = "done" /\ OnlyQuantityDiffers /\ orig_from.qty = "Array") =>
        /\ to.qty = "Slice" => ~cast.err
        /\ to.qty \in {"Single", "OffsetPtr"} => cast.err

\* The two shapes are non-nullable, not dyn-owned, of one multiplicity and
\* one pointee type, and differ in ownership.
OnlyOwnershipDiffers ==
    /\ SamePointee
    /\ orig_from.own # to.own
    /\ orig_from.qty = to.qty
    /\ ~orig_from.option /\ ~to.option
    /\ ~orig_from.dyn_owned /\ ~to.dyn_owned

\* The one-step table of C13, <<from, to, rewrites>>, and the ref-to-raw
\* steps.
DirectCasts ==
    { <<"Box", "Imm", <<Reborrow(FALSE)>>>>,
      <<"Box", "Mut", <<Reborrow(TRUE)>>>>,
      <<"Mut", "Imm", <<Reborrow(FALSE)>>>>,
      <<"Mut", "Cell", <<CellFromMut>>>>,
      <<"Raw", "Imm", <<UnsafeCastRawToRef(FALSE)>>>>,
      <<"RawMut", "Mut", <<UnsafeCastRawToRef(TRUE)>>>>,
      <<"RawMut", "Raw", <<CastRawToRaw(FALSE)>>>>,
      <<"Raw", "RawMut", <<CastRawToRaw(TRUE)>>>>,
      <<"RawMut", "Cell", <<CastRawMutToCellPtr, UnsafeCastRawToRef(FALSE)>>>> }

RefToRawCasts ==
    { <<"Mut", "RawMut", <<CastRefToRaw(TRUE)>>>>,
      <<"Imm", "Raw", <<CastRefToRaw(FALSE)>>>>,
      <<"Cell", "RawMut", <<AsPtr>>>> }

IsPrefix(a, b) == Len(a) <= Len(b) /\ SubSeq(b, 1, Len(a)) = a

\* The ownership a sequence of rewrites leads to from own when it is read as
\* a chain of steps of the two tables; "NoChain" when it is no such chain.
RECURSIVE ChainEnd(_, _)
ChainNext(steps, seq) ==
    IF steps = {} THEN "NoChain"
    ELSE ChainEnd((CHOOSE s \in steps : TRUE)[2],
                  SubSeq(seq, Len((CHOOSE s \in steps : TRUE)[3]) + 1, Len(seq)))

ChainEnd(own, seq) ==
    IF seq = <<>> THEN own
    ELSE ChainNext({s \in DirectCasts \cup RefToRawCasts : s[1] = own /\ IsPrefix(s[3], seq)},
                   seq)

\* C13: between two shapes that differ only in ownership, each pair of the
\* one-step table succeeds with exactly its rewrites; every other pair of
\* distinct ownerships fails, or succeeds with a chain of steps of the table
\* and of the ref-to-raw steps that leads from the source ownership to the
\* target ownership.
C13_OneStepTable ==
    (pc = "done" /\ OnlyOwnershipDiffers) =>
        /\ \A s \in DirectCasts :
              (orig_from.own = s[1] /\ to.own = s[2]) => (~cast.err /\ cast.emitted = s[3])
        /\ ~cast.err => ChainEnd(orig_from.own, cast.emitted) = to.own

\* RawMut to Cell: the one step that emits two rewrites.
C13_Witness ==
    /\ CastOk /\ OnlyOwnershipDiffers
    /\ orig_from.own = "RawMut" /\ to.own = "Cell"
    /\ orig_from.qty = "Array"
    /\ Len(cast.emitted) = 2

(***************************************************************************)
(* Properties of the Zero-Fill Plan (checked under SpecZero).              *)
(***************************************************************************)
\* A type has, at some nesting depth, a field or an element (or is itself) of
\* a kind other than integer, bool, array and struct.
RECURSIVE HasOtherKind(_)
HasOtherKind(ty) ==
    CASE ty[1] \in {"Int", "Uint", "Bool"} -> FALSE
      [] ty[1] = "Array" -> HasOtherKind(ty[2])
      [] ty[1] = "Struct" -> \E i \in DOMAIN ty[3] : HasOtherKind(ty[3][i][2])
      [] OTHER -> TRUE

\* A plan follows a type: Int for an integer, Bool for bool, Array(p) for an
\* array whose element p follows, Struct(name, fields) for a struct, with one
\* field per declared field, in declaration order, under the declared name.
RECURSIVE PlanFollows(_, _)
PlanFollows(plan, ty) ==
    CASE ty[1] \in {"Int", "Uint"} -> plan = ZInt
      [] ty[1] = "Bool" -> plan = ZBool
      [] ty[1] = "Array" -> plan[1] = "Array" /\ Len(plan) = 2 /\ PlanFollows(plan[2], ty[2])
      [] ty[1] = "Struct" ->
            /\ plan[1] = "Struct" /\ Len(plan) = 3
            /\ plan[2] = ty[2]
            /\ Len(plan[3]) = Len(ty[3])
            /\ \A i \in DOMAIN ty[3] :
                  /\ plan[3][i][1] = ty[3][i][1]
                  /\ PlanFollows(plan[3][i][2], ty[3][i][2])
      [] OTHER -> FALSE

\* C14: from_ty returns None exactly for the types that have, at any depth,
\* a field or element of another kind than integer, bool, array and struct;
\* for every other type it returns the plan that follows the type: Int, Bool,
\* Array of the element's plan, Struct of the fields' plans in declaration
\* order under their own names.  It never returns a partial plan.
C14_ZeroFillDerivation ==
    zero_plan # NoPlanYet =>
        /\ (zero_plan = NoZero) <=> HasOtherKind(ty_in)
        /\ zero_plan # NoZero => PlanFollows(zero_plan, ty_in)

\* A struct whose first field is a struct, and its plan.
C14_Witness ==
    /\ ty_in = TyStruct("T", <<<<"head", TyStruct("S", <<<<"a", TyUint>>, <<"b", TyBool>>>>)>>,
                            <<"tail", TyUint>>>>)
    /\ zero_plan = ZStruct("T", <<<<"head", ZStruct("S", <<<<"a", ZInt>>, <<"b", ZBool>>>>)>>,
                                 <<"tail", ZInt>>>>)

(***************************************************************************)
(* Further properties of the walker (checked under Spec).                  *)
(***************************************************************************)
\* A pointer local that is not FIXED, Single, non-nullable, not dyn-owned.
SimplePointer(lty) ==
    /\ IsPtr(lty) /\ ~lty.fixed
    /\ lty.qty = "Single"
    /\ ~is_nullable(lty) /\ ~is_dyn_owned(lty)

\* The statement visited last is `*p = <constant>`, p classified Cell, the
\* address of p not.
ScenarioA ==
    /\ cur.kind = "Assign"
    /\ cur.place.projection = <<"Deref">>
    /\ SimplePointer(cur.place.ltys[1]) /\ cur.place.ltys[1].own = "Cell"
    /\ cur.place.addr_own # "Cell"
    /\ cur.rvalue.kind = "Use" /\ cur.rvalue.ops[1].kind = "Constant"

\* C15: Scenario A appends exactly one rewrite at the Location, a CellSet at
\* the statement itself, and no cast rewrite.
C15_ScenarioA == ScenarioA => Here = <<MirRewrite(CellSet, <<>>)>>

C15_Witness ==
    /\ ScenarioA /\ ~panicked
    /\ Here = <<MirRewrite(CellSet, <<>>)>>
    /\ iter.visited = MaxVisits /\ Cardinality(DOMAIN rewrites) = 2

\* The statement visited last is `x = *q`, x a local that is no pointer, has
\* no projection and whose address is not classified Cell, q flagged CELL.
ScenarioB ==
    /\ cur.kind = "Assign"
    /\ cur.place.projection = <<>> /\ ~IsPtr(cur.place.ltys[1])
    /\ cur.place.addr_own # "Cell"
    /\ cur.rvalue.kind = "Use" /\ cur.rvalue.ops[1].kind # "Constant"
    /\ cur.rvalue.ops[1].place.projection = <<"Deref">>
    /\ SimplePointer(cur.rvalue.ops[1].place.ltys[1])
    /\ cur.rvalue.ops[1].place.ltys[1].cell

\* C16: Scenario B appends exactly one rewrite at the Location, a CellGet at
\* path [Rvalue], and no cast rewrite.
C16_ScenarioB == ScenarioB => Here = <<MirRewrite(CellGet, PathRvalue)>>

C16_Witness ==
    /\ ScenarioB /\ ~panicked
    /\ Here = <<MirRewrite(CellGet, PathRvalue)>>
    /\ iter.visited = MaxVisits /\ Cardinality(DOMAIN rewrites) = 2

\* A shape (Imm, Slice, non-nullable, not dyn-owned) of a pointer that is not
\* FIXED.
ImmSliceShape(lty) ==
    /\ IsPtr(lty) /\ ~lty.fixed
    /\ lty.own = "Imm" /\ lty.qty = "Slice"
    /\ ~lty.option /\ ~lty.dyn_owned

\* The terminator visited last is a pointer-offset call whose argument and
\* result both have that shape, over one pointee type.
ScenarioC ==
    /\ IsCallOf({"PtrOffset"})
    /\ cur.args[1].kind # "Constant"
    /\ ImmSliceShape(cur.args[1].lty)
    /\ ImmSliceShape(type_of(cur.destination))
    /\ cur.args[1].lty.pointee = type_of(cur.destination).pointee

\* C17: Scenario C appends exactly one rewrite at the Location,
\* OffsetSlice{mutbl: false} at path [Rvalue], and no cast rewrite before or
\* after it.
C17_ScenarioC == ScenarioC => Here = <<MirRewrite(OffsetSlice(FALSE), PathRvalue)>>

C17_Witness ==
    /\ ScenarioC /\ ~panicked
    /\ Here = <<MirRewrite(OffsetSlice(FALSE), PathRvalue)>>
    /\ Len(calls) = 3
    /\ iter.visited = MaxVisits /\ Cardinality(DOMAIN rewrites) = 2

\* The statement visited last assigns, to a destination whose type is
\* dyn-owned, the Use of a place whose type is dyn-owned.
TransfersOwnership ==
    /\ cur.kind = "Assign"
    /\ is_dyn_owned(type_of(cur.place))
    /\ cur.rvalue.kind = "Use" /\ cur.rvalue.ops[1].kind # "Constant"
    /\ is_dyn_owned(type_of(cur.rvalue.ops[1].place))

PathOperandPlace == <<SubRvalue, SubRvalueOperand(0), SubOperandPlace>>

CallsOf(fn) == {i \in DOMAIN calls : calls[i].fn = fn}
TakesAt == {k \in DOMAIN Here : Here[k].kind = DynOwnedTake}

\* The rewrites the cast from the source's shape to the destination's shape
\* emits.
TransferCast ==
    try_build_cast_desc_desc(lty_to_desc(cur.rvalue.lty), lty_to_desc(type_of(cur.place))).emitted

\* The rewrites of the Location from DynOwnedTake, at index k, on: the take at
\* [Rvalue], then the rewrites of the cast at [Rvalue], then those of the
\* visit of the destination.
AfterTake(k) ==
    /\ Here[k].sub_loc = PathRvalue
    /\ \A i \in 1..(k - 1) : IsPrefix(PathOperandPlace, Here[i].sub_loc)
    /\ Len(Here) >= k + Len(TransferCast)
    /\ \A j \in DOMAIN TransferCast : Here[k + j] = MirRewrite(TransferCast[j], PathRvalue)
    /\ \A i \in (k + Len(TransferCast) + 1)..Len(Here) : Here[i].sub_loc[1] = SubDest

\* C18: in the ownership-transfer case the source place is visited once,
\* with Mut access, under [Rvalue, RvalueOperand(0), OperandPlace], before
\* anything else; then one DynOwnedTake is emitted at [Rvalue]; then come the
\* rewrites of the cast from the source's shape to the destination's; and
\* visit_rvalue is not called: no place is visited with Move access and at
\* most one cast is built.
C18_OwnershipTransfer ==
    TransfersOwnership =>
        /\ calls # <<>>
        /\ calls[1] = PlaceCall(cur.rvalue.ops[1].place, "Mut") @@ [sub_loc |-> PathOperandPlace]
        /\ \A i \in CallsOf("visit_place") : i = 1 \/ calls[i].sub_loc = <<SubDest>>
        /\ \A i \in CallsOf("visit_place") : calls[i].access # "Move"
        /\ CallsOf("visit_rvalue") = {}
        /\ Cardinality(CallsOf("build_cast_desc_desc")) <= 1
        /\ \A i \in CallsOf("build_cast_desc_desc") :
              calls[i] = CastCall(lty_to_desc(cur.rvalue.lty), lty_to_desc(type_of(cur.place)))
                            @@ [sub_loc |-> PathRvalue]
        /\ Cardinality(TakesAt) = 1
        /\ \A k \in TakesAt : AfterTake(k)

\* A move out of `*pp` into a dyn-owned local: the visit of `*pp` emitted, in
\* Mut mode, before the take, and a cast of three rewrites after it.
C18_Witness ==
    /\ TransfersOwnership /\ ~panicked
    /\ Len(TransferCast) = 3
    /\ Len(Here) = 7
    /\ Here[1] = MirRewrite(OptionDowngrade(TRUE, TRUE), Append(PathOperandPlace, SubPlaceDerefPointer))
    /\ Here[4] = MirRewrite(DynOwnedTake, PathRvalue)

\* C19: the reason set starts empty; no visit and no other step of the walk
\* removes a reason from it; and the set gen_mir_rewrites returns is the set
\* as the last visit left it, the union of all reasons recorded.
C19_ReasonsOnlyGrow ==
    /\ errors = {}
    /\ [][/\ errors \subseteq errors'
          /\ (returned' /\ ~returned) => errors' = errors]_vars

\* A reason recorded by the first visit is returned after a second visit
\* that recorded none.
C19_Witness ==
    /\ returned
    /\ errors = {COMPLEX_CELL}
    /\ iter.visited = MaxVisits
    /\ cur.kind = "Call"

\* The last call of build_cast_desc_desc of the last visit, and the rewrites
\* it handed to the emit callback.
LastCast == calls[CHOOSE i \in CallsOf("build_cast_desc_desc") :
                    \A j \in CallsOf("build_cast_desc_desc") : j <= i]
LastCastEmitted == try_build_cast_desc_desc(LastCast.from, LastCast.to).emitted

\* Every rewrite that call emitted sits, in the order of the emits, behind
\* what the list of the Location held when the call began, under the path of
\* the call.
EmitsAppended ==
    attempt.made =>
        /\ Len(LastCastEmitted) = attempt.n
        /\ Len(Here) >= attempt.mark + attempt.n
        /\ \A j \in 1..attempt.n :
              Here[attempt.mark + j] = MirRewrite(LastCastEmitted[j], LastCast.sub_loc)

\* C20: a step of the walk only appends to the list of the Location it
\* visits, each emitted rewrite going to the end of that list with the path
\* current at the emit; the lists of the other Locations are as they were, no
\* rewrite of a list is changed, removed or moved, and no Location maps to an
\* empty list.
C20_AppendOnly ==
    /\ []EmitsAppended
    /\ [][/\ \A l \in DOMAIN rewrites :
                /\ l \in DOMAIN rewrites'
                /\ IsPrefix(rewrites[l], rewrites'[l])
                /\ l # loc' => rewrites'[l] = rewrites[l]
          /\ DOMAIN rewrites' \subseteq DOMAIN rewrites \cup {loc'}
          /\ \A l \in DOMAIN rewrites' : rewrites'[l] # <<>>]_vars

\* A second visit whose cast emitted two rewrites or more behind a rewrite
\* already in the list, the list of the first visit still in the map.
C20_Witness ==
    /\ iter.visited = MaxVisits /\ Cardinality(DOMAIN rewrites) = 2
    /\ attempt.made /\ attempt.mark >= 1 /\ attempt.n >= 2
    /\ Len(Here) = attempt.mark + attempt.n
    /\ \E l \in DOMAIN rewrites : l # loc /\ Len(rewrites[l]) >= 2

(***************************************************************************)
(* Properties of the walker on unsupported statements and on the calls of  *)
(* known functions (checked under Spec).                                   *)
(***************************************************************************)
\* A statement or terminator of a kind visit_statement and visit_terminator
\* answer with todo!().
Unsupported(s) == s.kind \in {"SetDiscriminant", "CopyNonOverlapping", "InlineAsm"}

\* C21: the visit of a SetDiscriminant or CopyNonOverlapping statement or of
\* an InlineAsm terminator panics with nothing emitted and no suppression
\* reason recorded by it; after a panic no step of the walk is taken, so
\* gen_mir_rewrites never returns its output.
C21_UnsupportedAborts ==
    /\ [](panicked => ~returned)
    /\ [][~panicked]_vars
    /\ [][(iter'.visited = iter.visited + 1 /\ Unsupported(cur')) =>
            (/\ panicked'
             /\ rewrites' = rewrites
             /\ errors' = errors
             /\ ~returned')]_vars

\* A CopyNonOverlapping statement met after a statement that emitted and
\* recorded a reason.
C21_Witness ==
    /\ panicked /\ ~returned
    /\ cur.kind = "CopyNonOverlapping"
    /\ iter.visited = MaxVisits
    /\ loc \notin DOMAIN rewrites /\ DOMAIN rewrites # {}
    /\ errors = {COMPLEX_CELL}

\* The rewrite of a null test by the permissions of its argument.
NullTestRewrite(arg_lty) ==
    MirRewrite(IF arg_lty.non_null THEN IsNullToConstFalse ELSE IsNullToIsNone, PathRvalue)

\* C22 as stated: every null-test call appends exactly one rewrite, at path
\* [Rvalue]: IsNullToConstFalse when the argument is NON_NULL, IsNullToIsNone
\* when it may be null.
C22_NullTestExactlyOne ==
    IsCallOf({"IsNull"}) => Here = <<NullTestRewrite(cur.args[1].lty)>>

\* C22 as amended: a null-test call whose argument is not FIXED appends
\* exactly one rewrite, at path [Rvalue]: IsNullToConstFalse when the
\* argument is NON_NULL, IsNullToIsNone when it may be null, never both; a
\* null-test call whose argument is FIXED appends nothing.
C22_NullTestUnlessFixed ==
    IsCallOf({"IsNull"}) =>
        /\ ~panicked
        /\ ~cur.args[1].lty.fixed => Here = <<NullTestRewrite(cur.args[1].lty)>>
        /\ cur.args[1].lty.fixed => Here = <<>>

\* A null test of a FIXED pointer that may be null, after a null test of a
\* NON_NULL pointer that is not FIXED.
C22_Witness ==
    /\ IsCallOf({"IsNull"})
    /\ cur.args[1].lty.fixed /\ ~cur.args[1].lty.non_null
    /\ Here = <<>>
    /\ iter.visited = MaxVisits
    /\ \E l \in DOMAIN rewrites : rewrites[l] = <<MirRewrite(IsNullToConstFalse, PathRvalue)>>

\* C23: PtrNullToNone is found only at a null-constant call whose destination
\* is nullable, and ZeroAsPtrToNone only at an assignment of a cast whose
\* type is nullable: the pointer of that position has a label, is not FIXED
\* and lacks NON_NULL.  Both are emitted at path [Rvalue].
C23_AbsenceOnlyNullable ==
    \A i \in DOMAIN Here :
        /\ Here[i].kind = PtrNullToNone =>
              /\ IsCallOf({"Null"})
              /\ is_nullable(type_of(cur.destination))
              /\ ~type_of(cur.destination).fixed /\ ~type_of(cur.destination).non_null
              /\ Here[i].sub_loc = PathRvalue
        /\ Here[i].kind = ZeroAsPtrToNone =>
              /\ cur.kind = "Assign"
              /\ cur.rvalue.kind = "Cast"
              /\ is_nullable(cur.rvalue.lty)
              /\ ~cur.rvalue.lty.fixed /\ ~cur.rvalue.lty.non_null
              /\ Here[i].sub_loc = PathRvalue

\* A null-constant call into a nullable destination, after the assignment of
\* `0 as *mut T` to a nullable pointer; both rewritten.
C23_Witness ==
    /\ IsCallOf({"Null"})
    /\ Here = <<MirRewrite(PtrNullToNone, PathRvalue)>>
    /\ iter.visited = MaxVisits
    /\ \E l \in DOMAIN rewrites : rewrites[l] = <<MirRewrite(ZeroAsPtrToNone, PathRvalue)>>

\* The argument a path lies under: i for a path that begins with
\* [Rvalue, CallArg(i)], the number of arguments for the path [Rvalue] (the
\* call as a whole, after the last argument), -1 for any other path.
SlotOf(path, nargs) ==
    IF path = PathRvalue THEN nargs
    ELSE IF Len(path) >= 2 /\ path[1] = SubRvalue /\ path[2][1] = "CallArg" THEN path[2][2]
    ELSE -1

\* The paths are those of arguments with a declared input, in increasing
\* order of the argument, the path [Rvalue] last.
SlotsInOrder(paths, nargs, ninputs) ==
    /\ \A i \in DOMAIN paths :
          /\ SlotOf(paths[i], nargs) >= 0
          /\ SlotOf(paths[i], nargs) < ninputs \/ SlotOf(paths[i], nargs) = nargs
    /\ \A i, j \in DOMAIN paths : i < j => SlotOf(paths[i], nargs) <= SlotOf(paths[j], nargs)

PathCallArg(i) == <<SubRvalue, SubCallArg(i)>>

\* The calls the visit of argument i made: its place is visited once, with
\* Move access, and every cast built under [Rvalue, CallArg(i)] leads from
\* the shape of the argument to the shape of the declared input i.
ArgVisited(i) ==
    LET op == cur.args[i + 1]
        input == cur.sig.inputs[i + 1]
        at == {k \in DOMAIN calls : SlotOf(calls[k].sub_loc, Len(cur.args)) = i}
    IN  /\ op.kind = "Constant" => at = {}
        /\ (op.kind # "Constant" /\ ~panicked) =>
              Cardinality({k \in at : calls[k].fn = "visit_place"}) = 1
        /\ \A k \in at :
              \/ /\ calls[k].fn = "visit_place"
                 /\ calls[k].place = op.place /\ calls[k].access = "Move"
                 /\ calls[k].sub_loc = Append(PathCallArg(i), SubOperandPlace)
              \/ /\ calls[k].fn = "build_cast_desc_desc"
                 /\ calls[k].sub_loc = PathCallArg(i)
                 /\ Axes(calls[k].from) = Axes(lty_to_desc(op.lty))
                 /\ Axes(calls[k].to) = Axes(lty_to_desc(input))

\* The cast of the result: built at most once, as the last call of the
\* visit, under [Rvalue], from the declared output to the destination, and
\* only if the destination has a pointer label.
ResultCast ==
    LET at == {k \in DOMAIN calls : calls[k].sub_loc = PathRvalue}
    IN  /\ Cardinality(at) <= 1
        /\ \A k \in at :
              /\ k = Len(calls)
              /\ calls[k].fn = "build_cast_desc_desc"
              /\ type_of(cur.destination).label
              /\ Axes(calls[k].from) = Axes(lty_to_desc(cur.sig.output))
              /\ Axes(calls[k].to) = Axes(lty_to_desc(type_of(cur.destination)))
        /\ ~type_of(cur.destination).label =>
              \A i \in DOMAIN Here : Here[i].sub_loc # PathRvalue

\* C24: at a call of a function with a recorded signature of n inputs, every
\* argument i < n is visited under inputs[i] and all it emits carries the
\* path prefix [Rvalue, CallArg(i)], in increasing i; for an argument i >= n
\* nothing is visited and nothing emitted; the cast from the declared output
\* to the destination is built after all arguments, and only if the
\* destination has a pointer label; with no recorded signature nothing is
\* emitted for the call.
C24_LocalDefCall ==
    IsCallOf({"LocalDef"}) =>
        /\ ~cur.sig.known => (Here = <<>> /\ calls = <<>> /\ ~panicked)
        /\ cur.sig.known =>
              /\ SlotsInOrder([i \in DOMAIN Here |-> Here[i].sub_loc],
                              Len(cur.args), Len(cur.sig.inputs))
              /\ SlotsInOrder([k \in DOMAIN calls |-> calls[k].sub_loc],
                              Len(cur.args), Len(cur.sig.inputs))
              /\ \A i \in 0..(Len(cur.args) - 1) :
                    i < Len(cur.sig.inputs) => ArgVisited(i)
              /\ ResultCast

\* A call with three arguments of a function of two declared inputs: the
\* first argument is cast, the third is a pointer and is passed over, the
\* result is cast last.
C24_Witness ==
    /\ IsCallOf({"LocalDef"}) /\ cur.sig.known /\ ~panicked
    /\ Len(cur.args) = 3 /\ Len(cur.sig.inputs) = 2
    /\ IsPtr(cur.args[3].lty)
    /\ Len(Here) = 2
    /\ Here[1].sub_loc = PathCallArg(0) /\ Here[2].sub_loc = PathRvalue
    /\ Len(calls) = 3
    /\ iter.visited = MaxVisits

(***************************************************************************)
(* Properties of the phases of the cast synthesizer (checked under         *)
(* SpecCast).                                                              *)
(***************************************************************************)
\* The class of a rewrite in the order of the phases; 0 for a rewrite the
\* cast synthesizer has no phase for.
PhaseClass(rk) ==
    CASE rk.kind = "OptionDowngrade" -> 1
      [] rk.kind \in {"OptionUnwrap", "OptionMapBegin"} -> 2
      [] rk.kind \in {"DynOwnedDowngrade", "DynOwnedUnwrap"} -> 3
      [] rk.kind \in {"Reborrow", "CellFromMut"} -> 4
      [] rk.kind = "SliceFirst" -> 5
      [] rk.kind \in {"CastRefToRaw", "CastRawToRaw", "UnsafeCastRawToRef", "AsPtr",
                      "CastRawMutToCellPtr"} -> 6
      [] rk.kind = "DynOwnedWrap" -> 7
      [] rk.kind \in {"OptionMapEnd", "OptionSome"} -> 8
      [] OTHER -> 0

KindsOf(seq) == [i \in DOMAIN seq |-> seq[i].kind]

\* C25: at every point of a cast attempt, whether it ends in Ok or in Err,
\* the rewrites emitted so far are in the order of the classes:
\* OptionDowngrade; OptionUnwrap or OptionMapBegin; DynOwnedDowngrade or
\* DynOwnedUnwrap; Reborrow or CellFromMut; SliceFirst; the raw-pointer
\* rewrites; DynOwnedWrap; OptionMapEnd or OptionSome.  No rewrite of a later
\* class precedes one of an earlier class; no raw-pointer rewrite precedes a
\* SliceFirst.
C25_PhaseOrder ==
    /\ \A i \in DOMAIN cast.emitted : PhaseClass(cast.emitted[i]) > 0
    /\ \A i, j \in DOMAIN cast.emitted :
          i < j => PhaseClass(cast.emitted[i]) <= PhaseClass(cast.emitted[j])

\* A cast through six of the classes.
C25_Witness ==
    /\ CastOk
    /\ KindsOf(cast.emitted) = <<"DynOwnedDowngrade", "Reborrow", "SliceFirst", "CastRefToRaw",
                                 "DynOwnedWrap", "OptionSome">>

\* A step keeps an axis of the running shape that has the target's value.
Keeps(axis) == cast.from[axis] = to[axis] => cast'.from[axis] = to[axis]

\* C26 as stated: once an axis of the running shape (ownership, multiplicity,
\* nullable, dyn-owned) has the target's value, no later phase changes it.
C26_MonotoneAllAxes ==
    [][Keeps("own") /\ Keeps("qty") /\ Keeps("option") /\ Keeps("dyn_owned")]_vars

\* C26 as amended: once the ownership or the multiplicity of the running
\* shape has the target's value, no later phase changes it.  The nullable
\* flag leaves the target's value only in the nullability-resolution phase,
\* when both shapes are nullable (OptionMapBegin), and the dyn-owned flag
\* only in the source-side dyn-owned phase, when both shapes are dyn-owned;
\* from the early ownership casts on, no axis that has the target's value
\* is changed.
C26_MonotoneAfterOpening ==
    [][/\ Keeps("own")
       /\ Keeps("qty")
       /\ ~Keeps("option") =>
             (pc = "option_open" /\ cast.from.option /\ to.option /\ cast'.in_option_map)
       /\ ~Keeps("dyn_owned") =>
             (pc = "dyn_owned_open" /\ cast.from.dyn_owned /\ to.dyn_owned)]_vars

\* A cast between two nullable, dyn-owned shapes that differ in ownership
\* and multiplicity: both flags were cleared and set again.
C26_Witness ==
    /\ CastOk
    /\ orig_from.option /\ to.option /\ orig_from.dyn_owned /\ to.dyn_owned
    /\ orig_from.own = "Mut" /\ to.own = "Raw"
    /\ orig_from.qty = "Slice" /\ to.qty = "Single"
    /\ \E i \in DOMAIN trail : ~trail[i].option /\ ~trail[i].dyn_owned

\* The source is nullable, of an ownership that is not Copy and is not the
\* target's.
DowngradeDue == orig_from.option /\ orig_from.own # to.own /\ ~is_copy(orig_from.own)

\* The attempt has passed the pointee gate and the pre-unwrap downgrade.
PastDowngrade == SamePointee /\ pc \notin {"gate", "option_downgrade"}

\* C27: in an attempt that passed the pointee gate, when `from` is nullable,
\* of a non-Copy ownership other than the target's, the first emitted rewrite
\* is OptionDowngrade{mutbl: false, deref: true} and the running ownership
\* becomes Imm if the target is Raw or Imm, and it is
\* OptionDowngrade{mutbl: true, deref: true} and the running ownership
\* becomes Mut if the target is RawMut, Cell or Mut; no OptionDowngrade is
\* emitted if the target is Box or Rc, if the source ownership is Copy, if
\* the source is not nullable, or if the ownerships are equal; at most one
\* OptionDowngrade is emitted, and it is the first rewrite, so it precedes
\* any OptionUnwrap or OptionMapBegin.
C27_PreUnwrapDowngrade ==
    /\ CountKind(cast.emitted, "OptionDowngrade") <= 1
    /\ \A i \in DOMAIN cast.emitted : cast.emitted[i].kind = "OptionDowngrade" => i = 1
    /\ (PastDowngrade /\ DowngradeDue /\ to.own \in {"Raw", "Imm"}) =>
          /\ cast.emitted # <<>>
          /\ cast.emitted[1] = OptionDowngrade(FALSE, TRUE)
          /\ trail[2].own = "Imm"
    /\ (PastDowngrade /\ DowngradeDue /\ to.own \in {"RawMut", "Cell", "Mut"}) =>
          /\ cast.emitted # <<>>
          /\ cast.emitted[1] = OptionDowngrade(TRUE, TRUE)
          /\ trail[2].own = "Mut"
    /\ (~DowngradeDue \/ to.own \in {"Box", "Rc"}) =>
          CountKind(cast.emitted, "OptionDowngrade") = 0

\* Option<Box<T>> to &Cell<T>: as_deref_mut, unwrap, Cell::from_mut.
C27_Witness ==
    /\ CastOk
    /\ orig_from.own = "Box" /\ to.own = "Cell"
    /\ cast.emitted = <<OptionDowngrade(TRUE, TRUE), OptionUnwrap, CellFromMut>>

\* The two shapes have one pointee type, as the gate judges it, and differ on
\* an axis.
DifferOnAxis == SamePointee /\ Axes(orig_from) # Axes(to)

Emitted(kind) == CountKind(cast.emitted, kind) > 0

\* The step emits a rewrite of the kind.
Emits(kind) == CountKind(cast'.emitted, kind) > CountKind(cast.emitted, kind)

\* The attempt has passed the nullability-resolution phase.
PastOptionOpen == pc \notin {"gate", "option_downgrade", "option_open"}

\* What C28 says of the rewrites emitted so far.
NullabilityEmitted ==
    /\ \A kind \in {"OptionUnwrap", "OptionMapBegin", "OptionSome", "OptionMapEnd"} :
          CountKind(cast.emitted, kind) <= 1
    /\ (DifferOnAxis /\ PastOptionOpen) =>
          /\ Emitted("OptionUnwrap") <=> (orig_from.option /\ ~to.option)
          /\ Emitted("OptionMapBegin") <=> (orig_from.option /\ to.option)
    /\ ~PastOptionOpen => (~Emitted("OptionUnwrap") /\ ~Emitted("OptionMapBegin"))
    /\ Emitted("OptionSome") => cast.emitted[Len(cast.emitted)] = OptionSome

\* C28: between shapes of one pointee type that differ on an axis,
\* OptionUnwrap is emitted iff `from` is nullable and `to` is not, and
\* OptionMapBegin iff both are nullable; OptionSome is emitted iff `from` is
\* not nullable, `to` is nullable and the attempt reaches the
\* nullability-closure phase, and it is then the last rewrite; each of the
\* rewrites is emitted at most once; OptionUnwrap and OptionMapBegin are
\* emitted only while the running shape is nullable, OptionSome and
\* OptionMapEnd only while it is not.
C28_NullabilityRewrites ==
    /\ []NullabilityEmitted
    /\ [][/\ Emits("OptionSome") <=> (pc = "option_close" /\ ~orig_from.option /\ to.option)
          /\ Emits("OptionMapEnd") => (pc = "option_close" /\ ~cast.from.option)
          /\ Emits("OptionSome") => ~cast.from.option
          /\ (Emits("OptionUnwrap") \/ Emits("OptionMapBegin")) => cast.from.option]_vars

\* &mut [T] to Option<*const T>: OptionSome closes a cast of three rewrites.
C28_Witness ==
    /\ CastOk
    /\ ~orig_from.option /\ to.option
    /\ orig_from.own = "Mut" /\ to.own = "Raw"
    /\ KindsOf(cast.emitted) = <<"Reborrow", "SliceFirst", "CastRefToRaw", "OptionSome">>

\* The source-side rewrite the target ownership chooses.
DynOwnedOpening(to_own) ==
    IF to_own \in {"Raw", "Imm"} THEN DynOwnedDowngrade(FALSE)
    ELSE IF to_own \in {"RawMut", "Cell", "Mut"} THEN DynOwnedDowngrade(TRUE)
    ELSE DynOwnedUnwrap

SourceSide(seq) == {i \in DOMAIN seq : seq[i].kind \in {"DynOwnedDowngrade", "DynOwnedUnwrap"}}

\* The attempt has passed the source-side dyn-owned phase.
PastDynOwnedOpen == PastOptionOpen /\ pc # "dyn_owned_open"

\* What C29 says of the rewrites emitted so far.
DynOwnedEmitted ==
    /\ (DifferOnAxis /\ PastDynOwnedOpen /\ orig_from.dyn_owned) =>
          /\ Cardinality(SourceSide(cast.emitted)) = 1
          /\ \A i \in SourceSide(cast.emitted) : cast.emitted[i] = DynOwnedOpening(to.own)
    /\ (~orig_from.dyn_owned \/ ~PastDynOwnedOpen) => SourceSide(cast.emitted) = {}
    /\ CountKind(cast.emitted, "DynOwnedWrap") <= 1
    /\ \A i, j \in DOMAIN cast.emitted :
          (i < j /\ cast.emitted[i] = DynOwnedWrap) =>
              cast.emitted[j].kind \in {"OptionMapEnd", "OptionSome"}

\* C29: between shapes of one pointee type that differ on an axis, a
\* dyn-owned `from` has exactly one source-side rewrite emitted, chosen by
\* the target ownership alone: DynOwnedDowngrade{mutbl: false} for Raw and
\* Imm, DynOwnedDowngrade{mutbl: true} for RawMut, Cell and Mut,
\* DynOwnedUnwrap for Rc and Box; the step clears the dyn-owned flag of the
\* running shape and leaves its ownership as it is.  A dyn-owned `to` has
\* exactly one DynOwnedWrap emitted when the attempt reaches the target-side
\* phase, after every ownership and multiplicity rewrite, and none
\* otherwise; so two dyn-owned shapes that differ elsewhere are unwrapped
\* and wrapped again.
C29_DynOwnedRewrites ==
    /\ []DynOwnedEmitted
    /\ [][/\ (pc = "dyn_owned_open" /\ cast.from.dyn_owned) =>
                /\ cast'.emitted = Append(cast.emitted, DynOwnedOpening(to.own))
                /\ ~cast'.from.dyn_owned
                /\ cast'.from.own = cast.from.own
          /\ Emits("DynOwnedWrap") <=> (pc = "dyn_owned_close" /\ to.dyn_owned)
          /\ Emits("DynOwnedWrap") => cast'.from.dyn_owned]_vars

\* Two dyn-owned shapes that differ in nullability alone: unwrapped, wrapped
\* again, then Some.
C29_Witness ==
    /\ CastOk
    /\ orig_from.dyn_owned /\ to.dyn_owned
    /\ orig_from.own = "Box"
    /\ cast.emitted = <<DynOwnedUnwrap, DynOwnedWrap, OptionSome>>

\* The two shapes differ only in multiplicity, one Slice, the other
\* OffsetPtr.
SliceVersusOffsetPtr ==
    /\ OnlyQuantityDiffers
    /\ \/ orig_from.qty = "Slice" /\ to.qty = "OffsetPtr"
       \/ orig_from.qty = "OffsetPtr" /\ to.qty = "Slice"

\* The wrapper pairs of a shape: OptionMapBegin and OptionMapEnd around the
\* source-side dyn-owned rewrite and DynOwnedWrap.
WrapperPairs(d) ==
    (IF d.option THEN <<OptionMapBegin>> ELSE <<>>)
        \o (IF d.dyn_owned THEN <<DynOwnedOpening(d.own), DynOwnedWrap>> ELSE <<>>)
        \o (IF d.option THEN <<OptionMapEnd>> ELSE <<>>)

\* C30: a cast between two shapes that differ only in multiplicity, Slice
\* against OffsetPtr in either direction, returns Ok and emits no rewrite for
\* the multiplicity: nothing at all when the shapes are neither nullable nor
\* dyn-owned, and otherwise only the wrapper pairs, OptionMapBegin and
\* OptionMapEnd around DynOwnedDowngrade or DynOwnedUnwrap and DynOwnedWrap.
C30_SliceOffsetPtrFree ==
    (pc = "done" /\ SliceVersusOffsetPtr) =>
        /\ ~cast.err
        /\ cast.from = to
        /\ cast.emitted = WrapperPairs(to)
        /\ (~to.option /\ ~to.dyn_owned) => cast.emitted = <<>>

\* Option<DynOwned<&mut [T]>>, from Slice to OffsetPtr: both wrapper pairs.
C30_Witness ==
    /\ CastOk /\ SliceVersusOffsetPtr
    /\ orig_from.qty = "Slice" /\ to.own = "Mut"
    /\ cast.emitted = <<OptionMapBegin, DynOwnedDowngrade(TRUE), DynOwnedWrap, OptionMapEnd>>

(***************************************************************************)
(* Properties of the multiplicity phase (checked under SpecCast).          *)
(***************************************************************************)
\* The cast is one from Slice or OffsetPtr to Single, over one pointee type.
ToSingle ==
    /\ SamePointee
    /\ orig_from.qty \in {"Slice", "OffsetPtr"}
    /\ to.qty = "Single"

\* What C31 says of the rewrites emitted so far.
SliceFirstEmitted ==
    /\ CountKind(cast.emitted, "SliceFirst") <= 1
    /\ Emitted("SliceFirst") => ToSingle
    /\ (ToSingle /\ pc = "done" /\ ~Emitted("SliceFirst")) => cast.err
    /\ (ToSingle /\ pc = "done" /\ orig_from.own \in {"Raw", "RawMut"}) =>
          (cast.err /\ ~Emitted("SliceFirst"))

\* C31: in a cast from Slice or OffsetPtr to Single, the multiplicity phase
\* emits exactly one SliceFirst when the running ownership, as the early
\* ownership casts left it, is Imm or Cell (mutbl: false) or Mut
\* (mutbl: true), and the running multiplicity becomes Single; when it is
\* Box, Rc, Raw or RawMut the phase emits nothing and leaves the
\* multiplicity, and the cast returns Err, possibly after the later phases
\* emitted rewrites.  No other phase emits SliceFirst, and no cast from a Raw
\* or RawMut source to Single returns Ok.
C31_ReductionToSingle ==
    /\ []SliceFirstEmitted
    /\ [][/\ Emits("SliceFirst") => (pc = "quantity" /\ ToSingle)
          /\ (pc = "quantity" /\ ToSingle /\ cast.from.qty # "Single") =>
                /\ cast.from.own \in {"Imm", "Cell"} =>
                      /\ cast'.emitted = Append(cast.emitted, SliceFirst(FALSE))
                      /\ cast'.from.qty = "Single"
                /\ cast.from.own = "Mut" =>
                      /\ cast'.emitted = Append(cast.emitted, SliceFirst(TRUE))
                      /\ cast'.from.qty = "Single"
                /\ cast.from.own \in {"Box", "Rc", "Raw", "RawMut"} =>
                      /\ cast'.emitted = cast.emitted
                      /\ cast'.from.qty = cast.from.qty
                      /\ pc' = "own_late"]_vars

\* *mut [T] to &mut T: no SliceFirst for RawMut; the late ownership casts
\* emit, and the cast returns Err.
C31_Witness ==
    /\ CastFailed /\ ToSingle
    /\ orig_from.own = "RawMut" /\ to.own = "Mut"
    /\ cast.emitted = <<UnsafeCastRawToRef(TRUE)>>
    /\ cast.from.qty = "Slice"

\* The cast would have to grow the multiplicity: from Single to another, or
\* to Array from another.
Grows ==
    \/ orig_from.qty = "Single" /\ to.qty \in {"Slice", "OffsetPtr", "Array"}
    \/ to.qty = "Array" /\ orig_from.qty # "Array"

\* C32: a cast from Single to Slice, OffsetPtr or Array, and a cast to Array
\* from another multiplicity, returns Err; at no point of it is a SliceFirst
\* emitted or the running multiplicity changed.
C32_SingleNeverGrows ==
    Grows =>
        /\ pc = "done" => cast.err
        /\ ~Emitted("SliceFirst")
        /\ cast.from.qty = orig_from.qty

\* Box<T> to &[T]: reborrowed, then refused.
C32_Witness ==
    /\ CastFailed /\ SamePointee
    /\ orig_from.qty = "Single" /\ to.qty = "Slice"
    /\ orig_from.own = "Box" /\ to.own = "Imm"
    /\ cast.emitted = <<Reborrow(FALSE)>>

(***************************************************************************)
(* Ownership is not made up, and the cast ends.                            *)
(***************************************************************************)
\* C39: a cast that returns Ok to a target whose ownership is Box or Rc had
\* a source of that same ownership: no rewrite sequence makes a Box or an Rc
\* of a borrowed or raw pointer, or of one another.
C39_OwnershipNotFabricated ==
    (CastOk /\ to.own \in {"Box", "Rc"}) => orig_from.own = to.own

\* Option<Box<T>> to Box<T>, say: a Box source reaches a Box target of
\* another shape through the phases, not through the identity gate.
C39_Witness ==
    /\ CastOk /\ SamePointee
    /\ to.own = "Box" /\ orig_from.own = "Box"
    /\ orig_from # to
    /\ cast.emitted # <<>>

\* The number of consecutive steps at the end of seq that changed the
\* ownership: the steps the running ownership loop has taken.
RECURSIVE TrailingOwnSteps(_)
TrailingOwnSteps(seq) ==
    IF Len(seq) < 2 THEN 0
    ELSE IF seq[Len(seq)].own # seq[Len(seq) - 1].own
    THEN 1 + TrailingOwnSteps(SubSeq(seq, 1, Len(seq) - 1))
    ELSE 0

\* The ownership kinds the running ownership loop has been at.
LoopKinds(seq) ==
    {seq[i].own : i \in (Len(seq) - TrailingOwnSteps(seq))..Len(seq)}

\* The steps of the whole call that changed the multiplicity.
QtySteps(seq) ==
    Cardinality({i \in 1..(Len(seq) - 1) : seq[i].qty # seq[i + 1].qty})

\* The loops are bounded, and so is the call: at most 15 steps, which are
\* the gate, three opening phases, two ownership loops of two steps and an
\* exit, the multiplicity loop of one step and an exit, two closing phases
\* and the final check.
LoopsBounded ==
    /\ pc \in {"own_early", "own_late"} =>
          /\ TrailingOwnSteps(trail) <= 2
          /\ Cardinality(LoopKinds(trail)) = TrailingOwnSteps(trail) + 1
    /\ QtySteps(trail) <= 1
    /\ Len(trail) <= 15
    /\ pc = "done" => cast.err \in BOOLEAN

\* C40: every call of try_build_cast_desc_desc returns, Ok or Err; each
\* ownership loop takes at most two steps and is never twice at one
\* ownership kind, and the multiplicity loop changes the multiplicity at
\* most once.
C40_Terminates ==
    /\ <>(pc = "done")
    /\ []LoopsBounded

\* *const T to &mut T: the late ownership loop took its two steps, Raw to
\* RawMut to Mut, and the call returned.
C40_Witness ==
    /\ CastOk /\ SamePointee
    /\ orig_from.own = "Raw" /\ to.own = "Mut"
    /\ cast.emitted = <<CastRawToRaw(TRUE), UnsafeCastRawToRef(TRUE)>>
    /\ \E i \in 1..(Len(trail) - 2) :
          /\ trail[i].own = "Raw"
          /\ trail[i + 1].own = "RawMut"
          /\ trail[i + 2].own = "Mut"

(***************************************************************************)
(* Properties of visit_place (checked under Spec).                         *)
(***************************************************************************)
\* The path step a projection is visited under.
PlaceStep(elem) ==
    CASE elem = "Deref" -> SubPlaceDerefPointer
      [] elem = "Field" -> SubPlaceFieldBase
      [] OTHER -> SubPlaceIndexArray

PlaceSteps == {SubPlaceDerefPointer, SubPlaceFieldBase, SubPlaceIndexArray}

\* The outermost Downcast of the place; 0 when it has none.
RECURSIVE DowncastFloor(_, _)
DowncastFloor(pl, n) ==
    IF n = 0 THEN 0
    ELSE IF pl.projection[n] = "Downcast" THEN n
    ELSE DowncastFloor(pl, n - 1)

\* The path of projection i of a place visited under path: one step for
\* every projection from the outermost down to i.
PathOf(pl, i, path) ==
    path \o [j \in 1..(Len(pl.projection) - i + 1) |->
                PlaceStep(pl.projection[Len(pl.projection) - j + 1])]

\* The rewrites of one Deref of a pointer typed lty.
DerefKinds(lty, access) ==
    (IF is_nullable(lty)
     THEN (IF ~is_copy(lty.own) THEN <<OptionDowngrade(access = "Mut", TRUE)>> ELSE <<>>)
            \o <<OptionUnwrap>>
     ELSE <<>>)
    \o (IF is_dyn_owned(lty) THEN <<DynOwnedDowngrade(access = "Mut")>> ELSE <<>>)

\* The kinds of the rewrites of the Deref projections i..Len, innermost
\* first.
RECURSIVE DerefKindsFrom(_, _, _)
DerefKindsFrom(pl, access, i) ==
    IF i > Len(pl.projection) THEN <<>>
    ELSE (IF pl.projection[i] = "Deref" THEN DerefKinds(pl.ltys[i], access) ELSE <<>>)
            \o DerefKindsFrom(pl, access, i + 1)

\* The paths of those rewrites.
RECURSIVE DerefPathsFrom(_, _, _, _)
DerefPathsFrom(pl, access, path, i) ==
    IF i > Len(pl.projection) THEN <<>>
    ELSE (IF pl.projection[i] = "Deref"
          THEN [k \in DOMAIN DerefKinds(pl.ltys[i], access) |-> PathOf(pl, i, path)]
          ELSE <<>>)
            \o DerefPathsFrom(pl, access, path, i + 1)

\* A rewrite recorded beneath path, under place steps alone: one of the
\* visit_place call made under path.
IsPlaceRewrite(rw, path) ==
    /\ Len(rw.sub_loc) > Len(path)
    /\ IsPrefix(path, rw.sub_loc)
    /\ \A j \in (Len(path) + 1)..Len(rw.sub_loc) : rw.sub_loc[j] \in PlaceSteps

PlaceRewritesUnder(seq, path) ==
    SelectSeq(seq, LAMBDA rw : IsPlaceRewrite(rw, path))

PlaceRewrites(c) == PlaceRewritesUnder(Here, c.sub_loc)

PathsOf(seq) == [i \in DOMAIN seq |-> seq[i].sub_loc]

Last(seq) == seq[Len(seq)]

\* An OptionDowngrade of visit_place is directly followed by the
\* OptionUnwrap of the same Deref.
DowngradeThenUnwrap(seq) ==
    \A k \in DOMAIN seq :
        seq[k].kind.kind = "OptionDowngrade" =>
            /\ k < Len(seq)
            /\ seq[k + 1].kind = OptionUnwrap
            /\ seq[k + 1].sub_loc = seq[k].sub_loc

\* The rewrites of the visit_place call c are those of the Deref
\* projections above projection floor.
DerefsHandled(c, floor) ==
    /\ KindsOf(PlaceRewrites(c)) = DerefKindsFrom(c.place, c.access, floor + 1)
    /\ \A k \in DOMAIN PlaceRewrites(c) :
          Last(PlaceRewrites(c)[k].sub_loc) = SubPlaceDerefPointer
    /\ DowngradeThenUnwrap(PlaceRewrites(c))

\* C33 as stated: every call of visit_place emits, for each Deref of the
\* place, innermost first: OptionDowngrade {mutbl: access == Mut,
\* deref: true} if the pointer is nullable and its ownership is not Copy,
\* OptionUnwrap if it is nullable, DynOwnedDowngrade {mutbl: access == Mut}
\* if it is dyn-owned, and nothing else.
C33_EveryDeref ==
    \A i \in CallsOf("visit_place") : DerefsHandled(calls[i], 0)

\* C33: every call of visit_place emits, for each Deref of the place that
\* is not beneath a Downcast, innermost first: OptionDowngrade
\* {mutbl: access == Mut, deref: true} if the pointer is nullable and its
\* ownership is not Copy, directly followed by OptionUnwrap if it is
\* nullable, then DynOwnedDowngrade {mutbl: access == Mut} if it is
\* dyn-owned, each at a path that ends in PlaceDerefPointer, and nothing
\* else.
C33_DerefsAboveDowncast ==
    \A i \in CallsOf("visit_place") :
        DerefsHandled(calls[i], DowncastFloor(calls[i].place, Len(calls[i].place.projection)))

\* `**pp = ..`: the Deref of pp first, then the Deref of *pp, each with its
\* rewrites, for mutable access.
C33_Witness ==
    /\ ~panicked
    /\ \E i \in CallsOf("visit_place") :
          /\ calls[i].place = DoubleDeref(BoxDynOwnedOpt, MutSingleOpt)
          /\ calls[i].access = "Mut"
          /\ KindsOf(PlaceRewrites(calls[i]))
                = <<OptionDowngrade(TRUE, TRUE), OptionUnwrap, DynOwnedDowngrade(TRUE),
                    OptionDowngrade(TRUE, TRUE), OptionUnwrap>>
          /\ PlaceRewrites(calls[i])[1].sub_loc
                = <<SubDest, SubPlaceDerefPointer, SubPlaceDerefPointer>>
          /\ PlaceRewrites(calls[i])[5].sub_loc = <<SubDest, SubPlaceDerefPointer>>

\* C34: a Field or Index projection emits nothing and its base is visited
\* under one more path step, PlaceFieldBase or PlaceIndexArray: the rewrites
\* of a call of visit_place are at the paths of the Deref projections above
\* the outermost Downcast, each path one step per projection from the
\* outermost down to that Deref, and none is at a path that ends in
\* PlaceFieldBase or PlaceIndexArray.  A Downcast emits nothing and ends the
\* traversal: no rewrite is at the path of a projection beneath it.
C34_TransparentProjections ==
    /\ \A k \in DOMAIN Here :
          Here[k].sub_loc # <<>> =>
              Last(Here[k].sub_loc) \notin {SubPlaceFieldBase, SubPlaceIndexArray}
    /\ \A i \in CallsOf("visit_place") :
          PathsOf(PlaceRewrites(calls[i]))
              = DerefPathsFrom(calls[i].place, calls[i].access, calls[i].sub_loc,
                    DowncastFloor(calls[i].place, Len(calls[i].place.projection)) + 1)

\* `((*p) as V).f = Len((*q)[i])`: nothing for the nullable p beneath the
\* Downcast; the rewrites of the Deref of q beneath the Index.
C34_Witness ==
    /\ ~panicked
    /\ \E i, j \in CallsOf("visit_place") :
          /\ calls[i].place = DerefDowncast(MutSingleOpt)
          /\ PlaceRewrites(calls[i]) = <<>>
          /\ calls[j].place = DerefThen(BoxDynOwnedOpt, "Index")
          /\ Len(PlaceRewrites(calls[j])) = 3
          /\ \A k \in 1..3 :
                PlaceRewrites(calls[j])[k].sub_loc
                    = calls[j].sub_loc \o <<SubPlaceIndexArray, SubPlaceDerefPointer>>

(***************************************************************************)
(* Properties of the calls of library functions (checked under Spec).      *)
(***************************************************************************)
\* The shape of the result of the pointer-offset call visited last, the
\* shape expected of its argument, and the rewrite of the offset itself.
OffsetResultDesc == lty_to_desc(type_of(cur.destination))
OffsetArgExpect ==
    TypeDesc(OffsetResultDesc.own,
             IF OffsetResultDesc.qty = "Single" THEN "Slice" ELSE OffsetResultDesc.qty,
             OffsetResultDesc.dyn_owned, OffsetResultDesc.option, OffsetResultDesc.pointee_ty)
OffsetArgDesc == perms_to_desc_with_pointee(OffsetArgExpect.pointee_ty, cur.args[1].lty)
OffsetRewrite ==
    IF OffsetResultDesc.option THEN OptionMapOffsetSlice(OffsetResultDesc.own = "Mut")
    ELSE OffsetSlice(OffsetResultDesc.own = "Mut")

\* The rewrites kinds, all recorded at path.
AtPath(kinds, path) == [i \in DOMAIN kinds |-> MirRewrite(kinds[i], path)]

\* The visit of a pointer-offset call whose argument cast ended in arg and
\* whose result cast ends in res.
OffsetVisit(arg, res) ==
    IF arg.err
    THEN /\ panicked
         /\ Len(calls) = 2
         /\ Here = AtPath(arg.emitted, PathCallArg0)
    ELSE /\ Len(calls) = 3
         /\ calls[3] = CastCall(OffsetArgExpect, OffsetResultDesc) @@ [sub_loc |-> PathRvalue]
         /\ Here = AtPath(arg.emitted, PathCallArg0)
                     \o <<MirRewrite(OffsetRewrite, PathRvalue)>>
                     \o AtPath(res.emitted, PathRvalue)
         /\ panicked = res.err

\* C35: the visit of a pointer-offset call expects of the argument the shape
\* of the result with Single widened to Slice and every other axis kept.  It
\* visits the argument and casts it to that shape under [Rvalue, CallArg(0)];
\* then emits at [Rvalue] one OffsetSlice, or OptionMapOffsetSlice if the
\* result is nullable, with mutbl true iff the result's ownership is Mut;
\* then casts at [Rvalue] from the expected argument shape to the result
\* shape.  A cast that has no rewrite sequence aborts the visit where it
\* stands.
C35_PointerOffset ==
    IsCallOf({"PtrOffset"}) =>
        /\ Len(calls) >= 2
        /\ calls[1] = PlaceCall(cur.args[1].place, "Move") @@ [sub_loc |-> PathCallArg0]
        /\ calls[2] = CastCall(OffsetArgDesc, OffsetArgExpect) @@ [sub_loc |-> PathCallArg0]
        /\ OffsetVisit(try_build_cast_desc_desc(OffsetArgDesc, OffsetArgExpect),
                       try_build_cast_desc_desc(OffsetArgExpect, OffsetResultDesc))

\* q = p.offset(i), p a &mut [T] and q an Option<&mut T>: the argument is
\* wrapped, the offset is mapped, the result is narrowed to one element.
C35_Witness ==
    /\ IsCallOf({"PtrOffset"}) /\ ~panicked
    /\ cur.args[1] = ArgOf(MutSlice, TyInt)
    /\ cur.destination = DestOf(MutSingleOpt, TyInt)
    /\ Here = <<MirRewrite(OptionSome, PathCallArg0),
                MirRewrite(OptionMapOffsetSlice(TRUE), PathRvalue),
                MirRewrite(OptionMapBegin, PathRvalue),
                MirRewrite(SliceFirst(TRUE), PathRvalue),
                MirRewrite(OptionMapEnd, PathRvalue)>>

\* The destination of the allocate call visited last, the plan of its
\* pointee, the rewrite of the call, and the shape the rewritten call
\* produces.
AllocDest == type_of(cur.destination)
AllocPlan == from_ty(pointee_lty(AllocDest))
AllocSingle == ~AllocDest.offset
AllocRewrite ==
    IF cur.callee = "Malloc" THEN MallocSafe(AllocPlan, AllocSingle)
    ELSE CallocSafe(AllocPlan, AllocSingle)
AllocCanonical ==
    TypeDesc("Box", IF AllocSingle THEN "Single" ELSE "Slice", FALSE, FALSE,
             lty_to_desc(AllocDest).pointee_ty)

\* The visit of an allocate call whose result cast ends in res.
AllocVisit(res) ==
    IF ~AllocDest.label \/ AllocDest.kind # "RawPtr" \/ AllocDest.fixed
    THEN /\ Here = <<MirRewrite(AllocRewrite, PathRvalue)>>
         /\ calls = <<>>
         /\ ~panicked
    ELSE /\ calls = <<CastCall(AllocCanonical, lty_to_desc(AllocDest))
                        @@ [sub_loc |-> PathRvalue]>>
         /\ Here = <<MirRewrite(AllocRewrite, PathRvalue)>> \o AtPath(res.emitted, PathRvalue)
         /\ panicked = res.err

\* C36: the visit of a malloc or calloc call whose destination has a
\* pointee with a Zero-Fill Plan emits at [Rvalue] one MallocSafe, or
\* CallocSafe, with that plan and single true iff the destination has
\* neither OFFSET_ADD nor OFFSET_SUB; behind it, at [Rvalue], the rewrites of
\* the cast from (Box, Single if single else Slice, non-nullable, not
\* dyn-owned) to the shape of the destination.  No cast is built when the
\* destination is FIXED or its type is no raw pointer.  With no pointee or
\* no plan, nothing is emitted.
C36_Allocate ==
    IsCallOf({"Malloc", "Calloc"}) =>
        IF pointee_lty(AllocDest) = NoTy \/ AllocPlan = NoZero
        THEN Here = <<>> /\ calls = <<>> /\ ~panicked
        ELSE AllocVisit(try_build_cast_desc_desc(AllocCanonical, lty_to_desc(AllocDest)))

\* p = malloc(n), p an Option<Box<[S]>>: MallocSafe of a slice, then Some.
C36_Witness ==
    /\ IsCallOf({"Malloc"}) /\ ~panicked
    /\ AllocDest = VoidPtr(BoxSliceOpt, StructS)
    /\ Here = <<MirRewrite(MallocSafe(from_ty(StructS), FALSE), PathRvalue),
                MirRewrite(OptionSome, PathRvalue)>>

\* The memcpy or memset call visited last: its destination argument, and
\* its result.
MemDest == cur.args[1].lty
MemResult == type_of(cur.destination)
MemRewritten ==
    IF cur.callee = "Memcpy"
    THEN pointee_lty(MemDest) # NoTy /\ pointee_lty(MemDest) = pointee_lty(cur.args[2].lty)
    ELSE pointee_lty(MemDest) # NoTy /\ from_ty(pointee_lty(MemDest)) # NoZero
MemRewrite ==
    IF cur.callee = "Memcpy" THEN MemcpySafe(~MemDest.offset, ~cur.args[2].lty.offset)
    ELSE MemsetZeroize(from_ty(pointee_lty(MemDest)), ~MemDest.offset)

\* The visit of a memcpy or memset call whose result cast, if one is
\* built, ends in res.
MemVisit(res) ==
    /\ Here # <<>>
    /\ Here[1] = MirRewrite(MemRewrite, PathRvalue)
    /\ IF MemResult.label /\ MemResult.used
       THEN (MemDest.kind = "RawPtr" /\ MemResult.kind = "RawPtr"
                /\ ~MemDest.fixed /\ ~MemResult.fixed) =>
                /\ calls = <<CastCall(lty_to_desc(MemDest), lty_to_desc(MemResult))
                               @@ [sub_loc |-> PathRvalue]>>
                /\ Here = <<MirRewrite(MemRewrite, PathRvalue)>>
                            \o AtPath(res.emitted, PathRvalue)
                /\ panicked = res.err
       ELSE /\ Here = <<MirRewrite(MemRewrite, PathRvalue)>>
            /\ calls = <<>>
            /\ ~panicked

\* C37: the visit of a memcpy or memset call that is rewritten emits
\* MemcpySafe or MemsetZeroize at [Rvalue], with dest_single (src_single)
\* true iff the destination (source) argument has neither OFFSET_ADD nor
\* OFFSET_SUB.  The cast from the destination argument to the result is
\* built iff the result has a pointer label whose permissions hold USED;
\* when it is not, the main rewrite is the only rewrite of the call.
C37_MemResultCast ==
    (IsCallOf({"Memcpy", "Memset"}) /\ MemRewritten) =>
        MemVisit(try_build_cast_desc_desc(lty_to_desc(MemDest), lty_to_desc(MemResult)))

\* memcpy(d, s, n) with the result unused and d a Box<T>: MemcpySafe alone,
\* although the cast from d to the result has rewrites.
C37_Witness ==
    /\ IsCallOf({"Memcpy"}) /\ MemRewritten /\ ~panicked
    /\ MemDest = VoidPtr(BoxSingle, TyInt)
    /\ MemResult = VoidPtr(ImmSingle, TyInt)
    /\ Here = <<MirRewrite(MemcpySafe(TRUE, FALSE), PathRvalue)>>
    /\ try_build_cast_desc_desc(lty_to_desc(MemDest), lty_to_desc(MemResult)).emitted # <<>>

\* The statement visited last reads directly through a pointer local that is
\* not FIXED and is flagged CELL, into a place that is neither a Cell local
\* nor behind a pointer: `x = *q`, `x = (*q).f`.
CellRead ==
    /\ cur.kind = "Assign"
    /\ cur.rvalue.kind = "Use"
    /\ cur.rvalue.ops[1].kind # "Constant"
    /\ is_indirect(cur.rvalue.ops[1].place)
    /\ IsPtr(cur.rvalue.ops[1].place.ltys[1])
    /\ ~cur.rvalue.ops[1].place.ltys[1].fixed
    /\ cur.rvalue.ops[1].place.ltys[1].cell
    /\ cur.place.addr_own # "Cell"
    /\ ~is_indirect(cur.place)

\* The source access is more than the guard allows.
ComplexSource ==
    \/ Len(cur.rvalue.ops[1].place.projection) > 1
    \/ cur.rvalue.ops[1].place.ltys[1].qty # "Single"

CellGetsAt == {i \in DOMAIN Here : Here[i].kind = CellGet}

\* C38 as stated: at the first visit of a walk, a read through a CELL pointer
\* records COMPLEX_CELL exactly when the source access has more than one
\* projection or the source pointer's multiplicity is not Single, and then
\* emits no CellGet; otherwise it emits exactly one CellGet, at [Rvalue], and
\* records no reason.
C38_CellReadGuard ==
    (CellRead /\ iter.visited = 1) =>
        /\ (COMPLEX_CELL \in errors) <=> ComplexSource
        /\ ComplexSource => CellGetsAt = {}
        /\ ~ComplexSource =>
              /\ Cardinality(CellGetsAt) = 1
              /\ \A i \in CellGetsAt : Here[i].sub_loc = PathRvalue
              /\ errors = {}

====
